---- MODULE Spec2Model ----
(***************************************************************************)
(* A model of the write pipeline of pixl-logger (src/logger.js): one       *)
(* Logger instance, its line buffer, its flush timer, the file system it   *)
(* appends to, and the asynchronous appends that are still outstanding.    *)
(*                                                                         *)
(* A log line is modelled by the ordinal of the print call that composed   *)
(* it (1, 2, ...), so that losing, duplicating and reordering lines are    *)
(* visible.  A payload (the join("") of some lines) is the sequence of     *)
(* those lines.  Every entry of a file remembers which code path wrote it. *)
(***************************************************************************)
EXTENDS Integers, Sequences, FiniteSets, TLC

\* number of print calls explored
MaxPrints == 3

\* number of print calls explored where eventual delivery is checked
MaxLivePrints == 3

\* print calls explored where further operations are added to the instance
MaxFewPrints == 2

\* lines a log file holds when the instance is constructed over it
MaxLogLines == 2

\* the clock and the explicit timestamps run from 1 to MaxTime half seconds
MaxTime == 4

\* debugLevel values and the levels of debug calls run from 0 to MaxLevel
MaxLevel == 2

\* characters the values of one record hold in all
MaxChars == 4

\* columns of the log
MaxColumns == 2

\* archive calls are told apart by their epoch
MaxEpochs == 2

\* live intervals, and registrations of the shutdown handlers, explored
MaxEnables == 2

\* largest bufferMaxLines a constructed instance is given
MaxBufferMaxLines == 2

\* the reference timestamps archive is called with
Epochs == 1..MaxEpochs

\* the output paths this.path can resolve to (placeholders, pather hook)
Paths == {"a.log", "b.log"}

\* this.lastPath before the first print
NoPath == "undefined"

\* the sync key of print's in_args: absent, true or false
SyncArgs == {"unset", "true", "false"}

VARIABLES
    useBuffer,        \* this.useBuffer
    bufferLines,      \* this.bufferLines
    flushInProgress,  \* this.flushInProgress
    flushTimer,       \* whether this.flushTimer holds a live interval
    bufferMaxLines,   \* this.bufferMaxLines
    args,             \* this.args
    lastPath,         \* this.lastPath
    files,            \* the file system: path -> sequence of entries appended
    pending,          \* fs.appendFile calls issued and not yet completed
    nprints,          \* number of print calls made so far
    failed,           \* whether some append has failed so far
    shutDown,         \* whether shutdown() has returned on the buffering instance
    last,             \* the call or callback that ran last, and how it ended
    lastRow,          \* this.lastRow: the line print composed last (0: none)
    emitted,          \* what the last call emitted or echoed, in order
    flushOnShutdown,  \* this.flushOnShutdown
    handlers,         \* how many times enableBuffer has registered the
                      \* shutdown handlers of this instance
    timers,           \* how many live intervals call this instance's flushBuffer
    archives,         \* the archive calls whose glob has not called back yet,
                      \* each known by its epoch
    cloned,           \* the instance the last clone() returned
    rot,              \* the rotate() call under way: its files, streams
                      \* and callback
    series,           \* the archive invocations: per epoch the matched
                      \* files and how far each is
    stored,           \* the files at archive destinations
    approximateTime,  \* this.approximateTime
    lastEpoch,        \* this.lastEpoch (0: not set)
    lastDateStr,      \* this.lastDateStr
    row,              \* what the last print or debug call was given and
                      \* what its row holds
    debugLevelGiven,  \* the debugLevel the application gave last, to the
                      \* constructor or to set()
    composed,         \* the columns and the line made of a record's values
    resolved          \* the output path print resolved for each line, by line number

vars == <<useBuffer, bufferLines, flushInProgress, flushTimer,
          bufferMaxLines, args, lastPath, files, pending, nprints, failed,
          shutDown, last, lastRow, emitted, flushOnShutdown, handlers,
          timers, archives, cloned, rot, series, stored, approximateTime,
          lastEpoch, lastDateStr, row, debugLevelGiven, composed, resolved>>

----------------------------------------------------------------------------
\* Helpers

\* the entries an append of payload writes, marked with the code path writing
Written(payload, by) ==
    [i \in 1..Len(payload) |-> [line |-> payload[i], by |-> by]]

\* fs.appendFileSync(path, payload) and a completed fs.appendFile: the file
\* at path grows by the payload, nothing else changes
appendFile(fs, path, payload, by) ==
    [fs EXCEPT ![path] = @ \o Written(payload, by)]

\* the record of the call that ran last
Call(op, line, path, syncArg, ioerr, threw) ==
    [op |-> op, line |-> line, path |-> path, syncArg |-> syncArg,
     ioerr |-> ioerr, threw |-> threw]

\* this.emit(name, payload) and the echo of a line; inFlight is the value
\* this.flushInProgress has when it happens
Event(name, payload, inFlight) ==
    [name |-> name, payload |-> payload, inFlight |-> inFlight]

\* a merge in which the instance default wins over the per-call value
MergedSyncDefaultWins(syncArg) ==
    args.sync

\* print merges the instance defaults under the per-call values
MergedSync(syncArg) ==
    IF syncArg = "unset" THEN args.sync ELSE syncArg = "true"

\* before clone() has been called: no instance
NoClone ==
    [made |-> FALSE, useBuffer |-> FALSE, hasBuffer |-> FALSE,
     flushTimer |-> FALSE, lastPath |-> NoPath,
     args |-> [sync |-> FALSE, flushOnShutdown |-> "unset", dargs |-> 0,
               filename |-> NoPath, debugLevel |-> 1,
               approximateTime |-> "unset"]]

\* a file that exists with the given content, and a path holding no file
File(data) ==
    [exists |-> TRUE, data |-> data]

NoFile ==
    [exists |-> FALSE, data |-> <<>>]

\* what a file at rotate's destination path held before the call
Old ==
    <<[line |-> 0, by |-> "old"]>>

\* no rotate() call under way
NoRotate ==
    [stage |-> "idle", src |-> NoPath, orig |-> <<>>, srcTemp |-> NoFile,
     destTemp |-> NoFile, dest |-> NoFile, copied |-> 0, inp |-> "none",
     outp |-> "none", calls |-> 0, result |-> "none", steps |-> <<>>]

\* the dest_path of an archive call: one without placeholders and one with
\* date and [filename] placeholders that ends in .gz
Templates == {"archive.log", "[yyyy]/[filename].log.gz"}

\* the base names of the log files
Basenames == {"a", "b"}

\* Tools.substitute(dest_path, a): the placeholders of the template take
\* the values a holds for them
Substitute(template, a) ==
    IF template = "archive.log"
    THEN [name |-> template, dargs |-> 0, filename |-> NoPath]
    ELSE [name |-> template, dargs |-> a.dargs, filename |-> a.filename]

\* the destination files archive can write
Dests ==
    {[name |-> "archive.log", dargs |-> 0, filename |-> NoPath]}
        \cup [name : {"[yyyy]/[filename].log.gz"}, dargs : Epochs,
              filename : Basenames]

\* dest_file.match(/\.gz$/i)
IsGz(dest) ==
    dest.name = "[yyyy]/[filename].log.gz"

\* what zlib.createGzip() makes of an entry piped through it
Gzip(entry) ==
    [gz |-> entry]

\* a matched file the series has not come to, and an invocation not made
Waiting ==
    [stage |-> "waiting", dest |-> Substitute("archive.log", <<>>),
     temp |-> NoFile, before |-> <<>>, copied |-> 0, inp |-> "none",
     outp |-> "none", calls |-> 0, failed |-> FALSE]

NoSeries ==
    [stage |-> "none", template |-> "archive.log", matched |-> <<>>,
     f |-> <<>>, calls |-> 0, result |-> "none"]

\* before any print or debug call
NoRow ==
    [category |-> "", code |-> 0, written |-> FALSE, hires |-> 0,
     epoch |-> 0, date |-> <<>>, clock |-> "none", cached |-> FALSE]

\* before any record has been serialized
NoLine ==
    [vals |-> <<>>, cols |-> <<>>, line |-> <<>>]

----------------------------------------------------------------------------
\* The state after new Logger(path, columns, args)

\* the flushOnShutdown of the class
DefaultFlushOnShutdown == TRUE

\* the approximateTime and the debugLevel of the class and of the
\* constructor
DefaultApproximateTime == FALSE

DefaultDebugLevel == 1

\* a debugLevel key that is not given
Absent == -1

\* fosArg and atArg are the flushOnShutdown and approximateTime keys of
\* args: absent, true or false; dbgArg is the debugLevel key: absent or a
\* number. A debugLevel that is absent or falsy becomes 1. The constructor
\* moves an internal arg from args onto the instance only when its value is
\* truthy; one given as false stays in this.args and the instance keeps
\* the default of the class. With useBuffer set the constructor ends with
\* enableBuffer()
instance(fosArg, dbgArg, atArg) ==
    /\ useBuffer \in BOOLEAN
    /\ bufferLines = <<>>
    /\ flushInProgress = FALSE
    /\ flushTimer = useBuffer
    /\ bufferMaxLines \in 1..MaxBufferMaxLines
    /\ args \in [sync : BOOLEAN, flushOnShutdown : {IF fosArg = "true" THEN "unset"
                                     ELSE fosArg}, dargs : {0},
                 filename : {NoPath},
                 debugLevel : {IF dbgArg = Absent \/ dbgArg = 0
                               THEN DefaultDebugLevel ELSE dbgArg},
                 approximateTime : {IF atArg = "true" THEN "unset"
                                    ELSE atArg}]
    /\ approximateTime = (IF atArg = "true" THEN TRUE
                          ELSE DefaultApproximateTime)
    /\ debugLevelGiven = dbgArg
    /\ lastEpoch = 0
    /\ lastDateStr = <<>>
    /\ row = NoRow
    /\ composed = NoLine
    /\ flushOnShutdown = (IF fosArg = "true" THEN TRUE
                          ELSE DefaultFlushOnShutdown)
    /\ handlers = IF useBuffer /\ flushOnShutdown THEN 1 ELSE 0
    /\ timers = IF useBuffer THEN 1 ELSE 0
    /\ archives = {}
    /\ cloned = NoClone
    /\ lastPath = NoPath
    /\ pending = {}
    /\ nprints = 0
    /\ resolved = <<>>
    /\ failed = FALSE
    /\ shutDown = FALSE
    /\ last = Call("new", 0, NoPath, "unset", FALSE, FALSE)
    /\ lastRow = 0
    /\ emitted = <<>>
    /\ rot = NoRotate
    /\ series = [e \in Epochs |-> NoSeries]
    /\ stored = [d \in Dests |-> <<>>]

\* the instance is constructed where no log file exists yet
constructor(fosArg) ==
    /\ instance(fosArg, Absent, "unset")
    /\ files = [p \in Paths |-> <<>>]

\* an instance constructed without the flushOnShutdown key
Init == constructor("unset")

\* the flushOnShutdown key of the constructor's args
FosArgs == {"unset", "true", "false"}

\* an instance constructed with any flushOnShutdown
InitEnable == \E fosArg \in FosArgs : constructor(fosArg)

\* what a log file left by earlier runs holds
LogContents ==
    {Written([i \in 1..n |-> i], "print") : n \in 0..MaxLogLines}

\* an instance constructed over log files that earlier runs have written
InitOverLogs ==
    /\ instance("unset", Absent, "unset")
    /\ files \in [Paths -> LogContents]

----------------------------------------------------------------------------
\* flushBuffer(), called with the buffer and the last path as they are at
\* the call; err is whether the synchronous append fails

\* whether the call gets past the guard and starts a write
flushStarts(buf) ==
    useBuffer /\ Len(buf) > 0 /\ ~flushInProgress

\* whether the call ends by throwing: only fs.appendFileSync can
flushThrows(buf, err) ==
    flushStarts(buf) /\ args.sync /\ err

\* what the call emits before it returns: the synchronous branch clears the
\* marker and then emits bufferFlushed with the payload
flushEmits(buf, err) ==
    IF flushStarts(buf) /\ args.sync /\ ~err
    THEN <<Event("bufferFlushed", buf, FALSE)>>
    ELSE <<>>

\* flushBuffer without the flush-in-progress test of its guard
flushBufferNoGuard(buf, path, err) ==
    IF ~useBuffer \/ Len(buf) = 0
    THEN /\ bufferLines' = buf
         /\ UNCHANGED <<flushInProgress, files, pending>>
    ELSE IF args.sync
         THEN /\ bufferLines' = <<>>
              /\ IF err
                 THEN /\ flushInProgress' = TRUE
                      /\ UNCHANGED files
                 ELSE /\ flushInProgress' = FALSE
                      /\ files' = appendFile(files, path, buf, "flush")
              /\ UNCHANGED pending
         ELSE /\ bufferLines' = <<>>
              /\ flushInProgress' = TRUE
              /\ pending' = pending \cup
                     {[kind |-> "flush", path |-> path, payload |-> buf]}
              /\ UNCHANGED files

\* flushBuffer that clears the marker right after issuing fs.appendFile
\* instead of in its callback
flushBufferEarlyClear(buf, path, err) ==
    IF ~useBuffer \/ Len(buf) = 0 \/ flushInProgress
    THEN /\ bufferLines' = buf
         /\ UNCHANGED <<flushInProgress, files, pending>>
    ELSE IF args.sync
         THEN /\ bufferLines' = <<>>
              /\ IF err
                 THEN /\ flushInProgress' = TRUE
                      /\ UNCHANGED files
                 ELSE /\ flushInProgress' = FALSE
                      /\ files' = appendFile(files, path, buf, "flush")
              /\ UNCHANGED pending
         ELSE /\ bufferLines' = <<>>
              /\ flushInProgress' = FALSE
              /\ pending' = pending \cup
                     {[kind |-> "flush", path |-> path, payload |-> buf]}
              /\ UNCHANGED files

flushBuffer(buf, path, err) ==
    IF ~useBuffer \/ Len(buf) = 0 \/ flushInProgress
    THEN /\ bufferLines' = buf
         /\ UNCHANGED <<flushInProgress, files, pending>>
    ELSE IF args.sync
         THEN /\ bufferLines' = <<>>
              /\ IF err
                 THEN /\ flushInProgress' = TRUE
                      /\ UNCHANGED files
                 ELSE /\ flushInProgress' = FALSE
                      /\ files' = appendFile(files, path, buf, "flush")
              /\ UNCHANGED pending
         ELSE /\ bufferLines' = <<>>
              /\ flushInProgress' = TRUE
              /\ pending' = pending \cup
                     {[kind |-> "flush", path |-> path, payload |-> buf]}
              /\ UNCHANGED files

\* bufferAppendLine that flushes only once the buffer exceeds bufferMaxLines
bufferAppendLineLate(line, path, err) ==
    IF Len(bufferLines) + 1 > bufferMaxLines
    THEN flushBuffer(Append(bufferLines, line), path, err)
    ELSE /\ bufferLines' = Append(bufferLines, line)
         /\ UNCHANGED <<flushInProgress, files, pending>>

\* bufferAppendLine(line)
bufferAppendLine(line, path, err) ==
    IF Len(bufferLines) + 1 >= bufferMaxLines
    THEN flushBuffer(Append(bufferLines, line), path, err)
    ELSE /\ bufferLines' = Append(bufferLines, line)
         /\ UNCHANGED <<flushInProgress, files, pending>>

\* what bufferAppendLine(line) emits
bufferAppendEmits(line, err) ==
    IF Len(bufferLines) + 1 >= bufferMaxLines
    THEN flushEmits(Append(bufferLines, line), err)
    ELSE <<>>

\* whether bufferAppendLine(line) ends by throwing
bufferAppendThrows(line, err) ==
    /\ Len(bufferLines) + 1 >= bufferMaxLines
    /\ flushThrows(Append(bufferLines, line), err)

----------------------------------------------------------------------------
\* The time of a print. Times are counted in half seconds; in_args.now is
\* the explicit timestamp of the call (0: none given) and clock is what the
\* system clock and the approximate clock snapshot hold when print runs

\* units of time in a second
TicksPerSecond == 2

\* seconds in a day
DayLength == 2

Times == 1..MaxTime

Clocks == [system : Times, approximate : Times]

\* Tools.formatDate(epoch, '[yyyy]-[mm]-[dd] [hh]:[mi]:[ss]'): the day and
\* the time of day of the second
FormatDate(epoch) ==
    <<epoch \div DayLength, epoch % DayLength>>

\* a print that takes the cached date string whenever one is cached
StampStale(in_args, clock) ==
    LET source == IF in_args.now # 0 THEN "explicit"
                  ELSE IF approximateTime THEN "approximate"
                  ELSE "system"
        now == IF source = "explicit" THEN in_args.now
               ELSE IF source = "approximate" THEN clock.approximate
               ELSE clock.system
        epoch == now \div TicksPerSecond
        hit == lastEpoch # 0
    IN  [hires |-> now, epoch |-> epoch, clock |-> source, cached |-> hit,
         date |-> IF hit THEN lastDateStr ELSE FormatDate(epoch),
         lastEpoch |-> IF hit THEN lastEpoch ELSE epoch]

\* the time a print takes, its epoch second and its date string: the date
\* string cached by an earlier print is taken when this.lastEpoch is set
\* and equal to the epoch second; otherwise the date is formatted and
\* cached with its second
Stamp(in_args, clock) ==
    LET source == IF in_args.now # 0 THEN "explicit"
                  ELSE IF approximateTime THEN "approximate"
                  ELSE "system"
        now == IF source = "explicit" THEN in_args.now
               ELSE IF source = "approximate" THEN clock.approximate
               ELSE clock.system
        epoch == now \div TicksPerSecond
        hit == lastEpoch # 0 /\ epoch = lastEpoch
    IN  [hires |-> now, epoch |-> epoch, clock |-> source, cached |-> hit,
         date |-> IF hit THEN lastDateStr ELSE FormatDate(epoch),
         lastEpoch |-> IF hit THEN lastEpoch ELSE epoch]

\* the row of a print: the category and code of in_args and the automatic
\* columns
Row(in_args, stamp) ==
    [category |-> in_args.category, code |-> in_args.code,
     written |-> TRUE, hires |-> stamp.hires, epoch |-> stamp.epoch,
     date |-> stamp.date, clock |-> stamp.clock, cached |-> stamp.cached]

\* a record with no timestamp, category or code
PlainArgs ==
    [now |-> 0, category |-> "", code |-> 0]

\* a clock that stands still
Still ==
    [system |-> MaxTime, approximate |-> MaxTime]

\* print(in_args): the line is the next ordinal, path is what this.path
\* resolves to for this record, syncArg is in_args.sync, echo is whether the
\* merged args.echo is set

\* whether this print ends by throwing
printThrows(line, syncArg, err) ==
    IF useBuffer THEN bufferAppendThrows(line, err)
    ELSE MergedSync(syncArg) /\ err

\* a print whose buffering branch returns before the row event
printEmitsUnbuffered(line, echo, err, inFlight) ==
    IF useBuffer THEN bufferAppendEmits(line, err)
    ELSE (IF echo THEN <<Event("echo", <<line>>, inFlight)>> ELSE <<>>)
         \o <<Event("row", <<line>>, inFlight)>>

\* what a print that returns emits: the bufferFlushed of a flush it
\* triggered, the echo when asked for, and last the row event
printEmits(line, echo, err, inFlight) ==
    (IF useBuffer THEN bufferAppendEmits(line, err) ELSE <<>>)
    \o (IF echo THEN <<Event("echo", <<line>>, inFlight)>> ELSE <<>>)
    \o <<Event("row", <<line>>, inFlight)>>

\* print that tests the sync flag before it tests useBuffer
printSyncFirst(path, syncArg, echo, err, in_args, clock) ==
    LET line == nprints + 1 IN
    /\ nprints < MaxPrints
    /\ lastEpoch' = Stamp(in_args, clock).lastEpoch
    /\ lastDateStr' = Stamp(in_args, clock).date
    /\ row' = Row(in_args, Stamp(in_args, clock))
    /\ err => (MergedSync(syncArg) \/ printThrows(line, syncArg, err))
    /\ nprints' = line
    /\ lastRow' = line
    /\ lastPath' = path
    /\ resolved' = Append(resolved, path)
    /\ IF MergedSync(syncArg)
       THEN /\ files' = IF err THEN files
                        ELSE appendFile(files, path, <<line>>, "print")
            /\ UNCHANGED <<bufferLines, flushInProgress, pending>>
       ELSE IF useBuffer
            THEN bufferAppendLine(line, path, err)
            ELSE /\ pending' = pending \cup
                        {[kind |-> "print", path |-> path, payload |-> <<line>>]}
                 /\ UNCHANGED <<bufferLines, flushInProgress, files>>
    /\ failed' = (failed \/ err)
    /\ last' = Call("print", line, path, syncArg, err,
                    IF MergedSync(syncArg) THEN err
                    ELSE printThrows(line, syncArg, err))
    /\ UNCHANGED <<flushOnShutdown, handlers, timers, archives, cloned>>
    /\ emitted' = IF last'.threw THEN <<>>
                  ELSE printEmits(line, echo, err, flushInProgress')
    /\ UNCHANGED <<useBuffer, flushTimer, bufferMaxLines, args, shutDown, rot,
                   series, stored, approximateTime, debugLevelGiven, composed>>

print(path, syncArg, echo, err, in_args, clock) ==
    LET line == nprints + 1 IN
    /\ nprints < MaxPrints
    /\ lastEpoch' = Stamp(in_args, clock).lastEpoch
    /\ lastDateStr' = Stamp(in_args, clock).date
    /\ row' = Row(in_args, Stamp(in_args, clock))
    /\ err => printThrows(line, syncArg, err)
    /\ nprints' = line
    /\ lastRow' = line
    /\ lastPath' = path
    /\ resolved' = Append(resolved, path)
    /\ IF useBuffer
       THEN bufferAppendLine(line, path, err)
       ELSE IF MergedSync(syncArg)
            THEN /\ files' = IF err THEN files
                             ELSE appendFile(files, path, <<line>>, "print")
                 /\ UNCHANGED <<bufferLines, flushInProgress, pending>>
            ELSE /\ pending' = pending \cup
                        {[kind |-> "print", path |-> path, payload |-> <<line>>]}
                 /\ UNCHANGED <<bufferLines, flushInProgress, files>>
    /\ failed' = (failed \/ err)
    /\ last' = Call("print", line, path, syncArg, err,
                    printThrows(line, syncArg, err))
    /\ UNCHANGED <<flushOnShutdown, handlers, timers, archives, cloned>>
    /\ emitted' = IF printThrows(line, syncArg, err) THEN <<>>
                  ELSE printEmits(line, echo, err, flushInProgress')
    /\ UNCHANGED <<useBuffer, flushTimer, bufferMaxLines, args, shutDown, rot,
                   series, stored, approximateTime, debugLevelGiven, composed>>

\* a print that records the serializer's result as this.lastRow before it
\* tests it
printSuppressedLate(in_args, clock) ==
    /\ lastEpoch' = Stamp(in_args, clock).lastEpoch
    /\ lastDateStr' = Stamp(in_args, clock).date
    /\ last' = Call("suppressed", 0, NoPath, "unset", FALSE, FALSE)
    /\ UNCHANGED <<flushOnShutdown, handlers, timers, archives, cloned>>
    /\ emitted' = <<>>
    /\ lastRow' = 0
    /\ UNCHANGED <<useBuffer, bufferLines, flushInProgress, flushTimer,
                   bufferMaxLines, args, lastPath, files, pending, nprints,
                   failed, shutDown, rot, series, stored, approximateTime, row,
                   debugLevelGiven, composed, resolved>>

\* print(in_args) when the serializer hook returns false for the row: print
\* returns before it records the line, resolves the path, writes or emits
printSuppressed(in_args, clock) ==
    /\ lastEpoch' = Stamp(in_args, clock).lastEpoch
    /\ lastDateStr' = Stamp(in_args, clock).date
    /\ last' = Call("suppressed", 0, NoPath, "unset", FALSE, FALSE)
    /\ UNCHANGED <<flushOnShutdown, handlers, timers, archives, cloned>>
    /\ emitted' = <<>>
    /\ UNCHANGED <<useBuffer, bufferLines, flushInProgress, flushTimer,
                   bufferMaxLines, args, lastPath, files, pending, nprints,
                   failed, shutDown, lastRow, rot, series, stored,
                   approximateTime, row, debugLevelGiven, composed, resolved>>

----------------------------------------------------------------------------
\* The interval set up by enableBuffer fires: flushBuffer()

\* an interval whose callback lost its instance: flushBuffer sees no
\* useBuffer and returns at once
TickUnbound(err) ==
    /\ timers > 0
    /\ ~err
    /\ last' = Call("tick", 0, lastPath, "unset", FALSE, FALSE)
    /\ UNCHANGED <<flushOnShutdown, handlers, timers, archives, cloned>>
    /\ emitted' = <<>>
    /\ UNCHANGED <<useBuffer, bufferLines, flushInProgress, flushTimer,
                   bufferMaxLines, args, lastPath, files, pending, nprints,
                   failed, shutDown, lastRow, rot, series, stored,
                   approximateTime, lastEpoch, lastDateStr, row,
                   debugLevelGiven, composed, resolved>>

Tick(err) ==
    /\ timers > 0
    /\ err => flushThrows(bufferLines, err)
    /\ flushBuffer(bufferLines, lastPath, err)
    /\ failed' = (failed \/ err)
    /\ last' = Call("tick", 0, lastPath, "unset", err,
                    flushThrows(bufferLines, err))
    /\ UNCHANGED <<flushOnShutdown, handlers, timers, archives, cloned>>
    /\ emitted' = flushEmits(bufferLines, err)
    /\ UNCHANGED <<useBuffer, flushTimer, bufferMaxLines, args, lastPath,
                   nprints, shutDown, lastRow, rot, series, stored,
                   approximateTime, lastEpoch, lastDateStr, row,
                   debugLevelGiven, composed, resolved>>

----------------------------------------------------------------------------
\* An fs.appendFile completes (err: with an error) and runs its callback:
\* flushBuffer's callback clears the marker, print's callback does nothing

\* a flush callback that returns at once when handed an error
AppendFileDoneErrReturns(w, err) ==
    /\ w \in pending
    /\ pending' = pending \ {w}
    /\ files' = IF err THEN files
                ELSE appendFile(files, w.path, w.payload, w.kind)
    /\ flushInProgress' = IF w.kind = "flush" /\ ~err THEN FALSE
                          ELSE flushInProgress
    /\ failed' = (failed \/ err)
    /\ last' = Call("done", 0, w.path, "unset", err, FALSE)
    /\ UNCHANGED <<flushOnShutdown, handlers, timers, archives, cloned>>
    /\ emitted' = IF w.kind = "flush"
                  THEN <<Event("bufferFlushed", w.payload, FALSE)>>
                  ELSE <<>>
    /\ UNCHANGED <<useBuffer, bufferLines, flushTimer, bufferMaxLines, args,
                   lastPath, nprints, shutDown, lastRow, rot, series, stored,
                   approximateTime, lastEpoch, lastDateStr, row,
                   debugLevelGiven, composed, resolved>>

AppendFileDone(w, err) ==
    /\ w \in pending
    /\ pending' = pending \ {w}
    /\ files' = IF err THEN files
                ELSE appendFile(files, w.path, w.payload, w.kind)
    /\ flushInProgress' = IF w.kind = "flush" THEN FALSE ELSE flushInProgress
    /\ failed' = (failed \/ err)
    /\ last' = Call("done", 0, w.path, "unset", err, FALSE)
    /\ UNCHANGED <<flushOnShutdown, handlers, timers, archives, cloned>>
    /\ emitted' = IF w.kind = "flush"
                  THEN <<Event("bufferFlushed", w.payload, FALSE)>>
                  ELSE <<>>
    /\ UNCHANGED <<useBuffer, bufferLines, flushTimer, bufferMaxLines, args,
                   lastPath, nprints, shutDown, lastRow, rot, series, stored,
                   approximateTime, lastEpoch, lastDateStr, row,
                   debugLevelGiven, composed, resolved>>

----------------------------------------------------------------------------
\* shutdown(); err is whether the synchronous drain fails

\* shutdown that catches the failure of its drain and carries on
shutdownSwallows(err) ==
    /\ err => (useBuffer /\ Len(bufferLines) > 0)
    /\ IF ~useBuffer
       THEN UNCHANGED <<useBuffer, bufferLines, flushTimer, args, files>>
       ELSE /\ flushTimer' = FALSE
            /\ files' = IF Len(bufferLines) > 0 /\ ~err
                        THEN appendFile(files, lastPath, bufferLines,
                                        "shutdown")
                        ELSE files
            /\ bufferLines' = <<>>
            /\ useBuffer' = FALSE
            /\ args' = [args EXCEPT !.sync = TRUE]
    /\ shutDown' = (shutDown \/ useBuffer)
    /\ failed' = (failed \/ err)
    /\ last' = Call("shutdown", 0, lastPath, "unset", err, FALSE)
    /\ timers' = IF useBuffer /\ flushTimer THEN timers - 1 ELSE timers
    /\ UNCHANGED <<flushOnShutdown, handlers, archives, cloned>>
    /\ emitted' = <<>>
    /\ UNCHANGED <<flushInProgress, bufferMaxLines, lastPath, pending, nprints,
                   lastRow, rot, series, stored, approximateTime, lastEpoch,
                   lastDateStr, row, debugLevelGiven, composed, resolved>>

\* shutdown that leaves args.sync as it was
shutdownKeepsAsync(err) ==
    /\ err => (useBuffer /\ Len(bufferLines) > 0)
    /\ IF ~useBuffer
       THEN UNCHANGED <<useBuffer, bufferLines, flushTimer, args, files>>
       ELSE /\ flushTimer' = FALSE
            /\ IF Len(bufferLines) > 0 /\ err
               THEN UNCHANGED <<useBuffer, bufferLines, args, files>>
               ELSE /\ files' = IF Len(bufferLines) > 0
                                THEN appendFile(files, lastPath, bufferLines,
                                                "shutdown")
                                ELSE files
                    /\ bufferLines' = <<>>
                    /\ useBuffer' = FALSE
                    /\ UNCHANGED args
    /\ shutDown' = (shutDown \/ (useBuffer /\ ~err))
    /\ failed' = (failed \/ err)
    /\ last' = Call("shutdown", 0, lastPath, "unset", err, err)
    /\ timers' = IF useBuffer /\ flushTimer THEN timers - 1 ELSE timers
    /\ UNCHANGED <<flushOnShutdown, handlers, archives, cloned>>
    /\ emitted' = <<>>
    /\ UNCHANGED <<flushInProgress, bufferMaxLines, lastPath, pending, nprints,
                   lastRow, rot, series, stored, approximateTime, lastEpoch,
                   lastDateStr, row, debugLevelGiven, composed, resolved>>

\* shutdown that empties the buffer without appending it
shutdownNoDrain(err) ==
    /\ err => (useBuffer /\ Len(bufferLines) > 0)
    /\ IF ~useBuffer
       THEN UNCHANGED <<useBuffer, bufferLines, flushTimer, args, files>>
       ELSE /\ flushTimer' = FALSE
            /\ IF Len(bufferLines) > 0 /\ err
               THEN UNCHANGED <<useBuffer, bufferLines, args, files>>
               ELSE /\ UNCHANGED files
                    /\ bufferLines' = <<>>
                    /\ useBuffer' = FALSE
                    /\ args' = [args EXCEPT !.sync = TRUE]
    /\ shutDown' = (shutDown \/ (useBuffer /\ ~err))
    /\ failed' = (failed \/ err)
    /\ last' = Call("shutdown", 0, lastPath, "unset", err, err)
    /\ timers' = IF useBuffer /\ flushTimer THEN timers - 1 ELSE timers
    /\ UNCHANGED <<flushOnShutdown, handlers, archives, cloned>>
    /\ emitted' = <<>>
    /\ UNCHANGED <<flushInProgress, bufferMaxLines, lastPath, pending, nprints,
                   lastRow, rot, series, stored, approximateTime, lastEpoch,
                   lastDateStr, row, debugLevelGiven, composed, resolved>>

\* shutdown without the test of useBuffer it begins with
shutdownNoGuard(err) ==
    /\ err => (useBuffer /\ Len(bufferLines) > 0)
    /\ flushTimer' = FALSE
    /\ IF Len(bufferLines) > 0 /\ err
       THEN UNCHANGED <<useBuffer, bufferLines, args, files>>
       ELSE /\ files' = IF Len(bufferLines) > 0
                        THEN appendFile(files, lastPath, bufferLines,
                                        "shutdown")
                        ELSE files
            /\ bufferLines' = <<>>
            /\ useBuffer' = FALSE
            /\ args' = [args EXCEPT !.sync = TRUE]
    /\ shutDown' = (shutDown \/ (useBuffer /\ ~err))
    /\ failed' = (failed \/ err)
    /\ last' = Call("shutdown", 0, lastPath, "unset", err, err)
    /\ timers' = IF flushTimer THEN timers - 1 ELSE timers
    /\ UNCHANGED <<flushOnShutdown, handlers, archives, cloned>>
    /\ emitted' = <<>>
    /\ UNCHANGED <<flushInProgress, bufferMaxLines, lastPath, pending, nprints,
                   lastRow, rot, series, stored, approximateTime, lastEpoch,
                   lastDateStr, row, debugLevelGiven, composed, resolved>>

shutdown(err) ==
    /\ err => (useBuffer /\ Len(bufferLines) > 0)
    /\ IF ~useBuffer
       THEN UNCHANGED <<useBuffer, bufferLines, flushTimer, args, files>>
       ELSE /\ flushTimer' = FALSE
            /\ IF Len(bufferLines) > 0 /\ err
               THEN UNCHANGED <<useBuffer, bufferLines, args, files>>
               ELSE /\ files' = IF Len(bufferLines) > 0
                                THEN appendFile(files, lastPath, bufferLines,
                                                "shutdown")
                                ELSE files
                    /\ bufferLines' = <<>>
                    /\ useBuffer' = FALSE
                    /\ args' = [args EXCEPT !.sync = TRUE]
    /\ shutDown' = (shutDown \/ (useBuffer /\ ~err))
    /\ failed' = (failed \/ err)
    /\ last' = Call("shutdown", 0, lastPath, "unset", err, err)
    /\ timers' = IF useBuffer /\ flushTimer THEN timers - 1 ELSE timers
    /\ UNCHANGED <<flushOnShutdown, handlers, archives, cloned>>
    /\ emitted' = <<>>
    /\ UNCHANGED <<flushInProgress, bufferMaxLines, lastPath, pending, nprints,
                   lastRow, rot, series, stored, approximateTime, lastEpoch,
                   lastDateStr, row, debugLevelGiven, composed, resolved>>

----------------------------------------------------------------------------
\* set('sync', value)

set(value) ==
    /\ args' = [args EXCEPT !.sync = value]
    /\ last' = Call("set", 0, NoPath, "unset", FALSE, FALSE)
    /\ UNCHANGED <<flushOnShutdown, handlers, timers, archives, cloned>>
    /\ UNCHANGED <<useBuffer, bufferLines, flushInProgress, flushTimer,
                   bufferMaxLines, lastPath, files, pending, nprints, failed,
                   shutDown, lastRow, rot, series, stored, approximateTime,
                   lastEpoch, lastDateStr, row, debugLevelGiven, composed,
                   resolved>>
    /\ emitted' = <<>>

----------------------------------------------------------------------------
Next ==
    \/ \E path \in Paths, syncArg \in SyncArgs, echo \in BOOLEAN,
          err \in BOOLEAN :
           print(path, syncArg, echo, err, PlainArgs, Still)
    \/ printSuppressed(PlainArgs, Still)
    \/ \E err \in BOOLEAN : Tick(err)
    \/ \E w \in pending, err \in BOOLEAN : AppendFileDone(w, err)
    \/ \E err \in BOOLEAN : shutdown(err)
    \/ \E value \in BOOLEAN : set(value)

Spec == Init /\ [][Next]_vars

\* The same instance when every append succeeds, the timer keeps firing and
\* every fs.appendFile issued completes
NextLive ==
    \/ \E path \in Paths, syncArg \in SyncArgs, echo \in BOOLEAN :
           /\ nprints < MaxLivePrints
           /\ print(path, syncArg, echo, FALSE, PlainArgs, Still)
    \/ printSuppressed(PlainArgs, Still)
    \/ Tick(FALSE)
    \/ \E w \in pending : AppendFileDone(w, FALSE)
    \/ shutdown(FALSE)
    \/ \E value \in BOOLEAN : set(value)

LiveSpec ==
    /\ Init
    /\ [][NextLive]_vars
    /\ WF_vars(Tick(FALSE))
    /\ WF_vars(\E w \in pending : AppendFileDone(w, FALSE))

----------------------------------------------------------------------------
\* The instance with few prints, for the specifications that add operations
\* to it

NextFew ==
    \/ \E path \in Paths, syncArg \in SyncArgs, echo \in BOOLEAN,
          err \in BOOLEAN :
           /\ nprints < MaxFewPrints
           /\ print(path, syncArg, echo, err, PlainArgs, Still)
    \/ printSuppressed(PlainArgs, Still)
    \/ \E err \in BOOLEAN : Tick(err)
    \/ \E w \in pending, err \in BOOLEAN : AppendFileDone(w, err)
    \/ \E err \in BOOLEAN : shutdown(err)
    \/ \E value \in BOOLEAN : set(value)

----------------------------------------------------------------------------
\* archive(src_spec, dest_path, epoch, callback). An invocation is known by
\* its epoch; series[epoch].f[i] is how far the i-th matched file is, and
\* series[epoch].calls counts the calls of the invocation's callback

Basename(file) == IF file = "a.log" THEN "a" ELSE "b"

\* everything archive leaves alone
ArchiveFrame ==
    UNCHANGED <<useBuffer, bufferLines, flushInProgress, flushTimer,
                bufferMaxLines, lastPath, pending, nprints, failed,
                shutDown, lastRow, flushOnShutdown, handlers, timers,
                cloned, rot, approximateTime, lastEpoch, lastDateStr, row,
                debugLevelGiven, composed, resolved>>

\* the call itself: the date args of epoch are stored into this.args key by
\* key (dargs stands for them all) and glob is started. An invocation that
\* has called back is remembered until the next call only
archive(epoch, template) ==
    /\ epoch \notin archives
    /\ series[epoch].stage \in {"none", "done"}
    /\ args' = [args EXCEPT !.dargs = epoch]
    /\ archives' = archives \cup {epoch}
    /\ series' = [e \in Epochs |->
                      IF e = epoch
                      THEN [NoSeries EXCEPT !.stage = "glob",
                                            !.template = template]
                      ELSE IF series[e].stage = "done" THEN NoSeries
                      ELSE series[e]]
    /\ last' = Call("archive", 0, NoPath, "unset", FALSE, FALSE)
    /\ emitted' = <<>>
    /\ UNCHANGED <<files, stored>>
    /\ ArchiveFrame

\* the series comes to the i-th file of job: its base name is stored into
\* this.args, the destination is substituted from this.args and the rename
\* to the source temp file is issued
startFile(epoch, i, job) ==
    /\ args' = [args EXCEPT !.filename = Basename(job.matched[i])]
    /\ series' = [series EXCEPT ![epoch] =
                      [job EXCEPT !.f[i].stage = "rename",
                                  !.f[i].dest = Substitute(job.template,
                                                           args')]]

\* the invocation's callback is called
seriesDone(epoch, job, err) ==
    /\ series' = [series EXCEPT ![epoch] =
                      [job EXCEPT !.stage = "done", !.calls = @ + 1,
                                  !.result = IF err THEN "err" ELSE "ok"]]
    /\ UNCHANGED args

\* a series that goes on to the next file after a failure
fileCallbackGoesOn(epoch, i, job, err) ==
    LET called == [job EXCEPT !.f[i].calls = @ + 1,
                              !.f[i].failed = @ \/ err]
    IN  IF job.f[i].calls > 0 \/ job.stage = "done"
        THEN series' = [series EXCEPT ![epoch] = called] /\ UNCHANGED args
        ELSE IF i = Len(job.matched) THEN seriesDone(epoch, called, err)
        ELSE startFile(epoch, i + 1, called)

\* callback(err) of async.eachSeries for the i-th file, job being the
\* invocation as the caller leaves it. The first call ends the series with
\* the error, starts the next file or ends the series after the last; a
\* further call for the same file starts nothing
fileCallback(epoch, i, job, err) ==
    LET called == [job EXCEPT !.f[i].calls = @ + 1,
                              !.f[i].failed = @ \/ err]
    IN  IF job.f[i].calls > 0 \/ job.stage = "done"
        THEN series' = [series EXCEPT ![epoch] = called] /\ UNCHANGED args
        ELSE IF err \/ i = Len(job.matched)
        THEN seriesDone(epoch, called, err)
        ELSE startFile(epoch, i + 1, called)

\* glob calls back: with an error or no match (found empty) the callback is
\* called with an error; with matches the series starts on the first
archiveGlobDone(epoch, found, err) ==
    /\ epoch \in archives
    /\ archives' = archives \ {epoch}
    /\ LET job == [series[epoch] EXCEPT
                       !.stage = "series", !.matched = found,
                       !.f = [i \in 1..Len(found) |-> Waiting]]
       IN  IF err \/ found = <<>>
           THEN seriesDone(epoch, [job EXCEPT !.matched = <<>>,
                                              !.f = <<>>], TRUE)
           ELSE startFile(epoch, 1, job)
    /\ last' = Call("globbed", 0, IF found = <<>> THEN NoPath ELSE found[1],
                    "unset", err, FALSE)
    /\ emitted' = <<>>
    /\ UNCHANGED <<files, stored>>
    /\ ArchiveFrame

\* the matched files of an archive invocation, by position
FilesOf(job) ==
    1..Len(job.f)

\* the callback of fs.rename(src_file, src_temp_file)
archiveRenamed(epoch, i, err) ==
    /\ i \in FilesOf(series[epoch])
    /\ series[epoch].stage = "series"
    /\ series[epoch].f[i].stage = "rename"
    /\ LET src == series[epoch].matched[i]
       IN  IF err
           THEN /\ fileCallback(epoch, i,
                       [series[epoch] EXCEPT !.f[i].stage = "over"], TRUE)
                /\ UNCHANGED files
           ELSE /\ series' = [series EXCEPT
                                  ![epoch].f[i].stage = "mkdirp",
                                  ![epoch].f[i].temp = File(files[src])]
                /\ files' = [files EXCEPT ![src] = <<>>]
                /\ UNCHANGED args
    /\ last' = Call("archiveRenamed", 0, series[epoch].matched[i], "unset",
                    err, FALSE)
    /\ emitted' = <<>>
    /\ UNCHANGED <<archives, stored>>
    /\ ArchiveFrame

\* a write stream opened without the append flag
archiveDirsMadeTruncating(epoch, i, err) ==
    /\ i \in FilesOf(series[epoch])
    /\ series[epoch].stage = "series"
    /\ series[epoch].f[i].stage = "mkdirp"
    /\ IF err
       THEN /\ fileCallback(epoch, i,
                   [series[epoch] EXCEPT !.f[i].stage = "over"], TRUE)
            /\ UNCHANGED stored
       ELSE /\ series' = [series EXCEPT
                              ![epoch].f[i].stage = "copy",
                              ![epoch].f[i].inp = "open",
                              ![epoch].f[i].outp = "open",
                              ![epoch].f[i].before =
                                  stored[series[epoch].f[i].dest]]
            /\ stored' = [stored EXCEPT ![series[epoch].f[i].dest] = <<>>]
            /\ UNCHANGED args
    /\ last' = Call("archiveDirsMade", 0, series[epoch].matched[i], "unset",
                    err, FALSE)
    /\ emitted' = <<>>
    /\ UNCHANGED <<archives, files>>
    /\ ArchiveFrame

\* the callback of mkdirp: without an error the read stream of the source
\* temp file and the write stream of the destination, opened with flags
\* 'a', are created and piped, through gzip for a .gz destination
archiveDirsMade(epoch, i, err) ==
    /\ i \in FilesOf(series[epoch])
    /\ series[epoch].stage = "series"
    /\ series[epoch].f[i].stage = "mkdirp"
    /\ IF err
       THEN fileCallback(epoch, i,
                [series[epoch] EXCEPT !.f[i].stage = "over"], TRUE)
       ELSE /\ series' = [series EXCEPT
                              ![epoch].f[i].stage = "copy",
                              ![epoch].f[i].inp = "open",
                              ![epoch].f[i].outp = "open",
                              ![epoch].f[i].before =
                                  stored[series[epoch].f[i].dest]]
            /\ UNCHANGED args
    /\ last' = Call("archiveDirsMade", 0, series[epoch].matched[i], "unset",
                    err, FALSE)
    /\ emitted' = <<>>
    /\ UNCHANGED <<archives, files, stored>>
    /\ ArchiveFrame

\* the pipe: the next chunk of the source temp file is appended to the
\* destination
archiveCopy(epoch, i) ==
    /\ i \in FilesOf(series[epoch])
    /\ series[epoch].f[i].stage = "copy"
    /\ series[epoch].f[i].inp = "open"
    /\ series[epoch].f[i].outp = "open"
    /\ series[epoch].f[i].copied < Len(series[epoch].f[i].temp.data)
    /\ LET file == series[epoch].f[i]
           chunk == file.temp.data[file.copied + 1]
       IN  stored' = [stored EXCEPT ![file.dest] =
                          Append(@, IF IsGz(file.dest) THEN Gzip(chunk)
                                    ELSE chunk)]
    /\ series' = [series EXCEPT ![epoch].f[i].copied = @ + 1]
    /\ last' = Call("archiveCopy", 0, series[epoch].matched[i], "unset",
                    FALSE, FALSE)
    /\ emitted' = <<>>
    /\ UNCHANGED <<archives, files, args>>
    /\ ArchiveFrame

\* inp.on('error', callback): the read stream fails before its end
archiveInpError(epoch, i) ==
    /\ i \in FilesOf(series[epoch])
    /\ series[epoch].f[i].stage = "copy"
    /\ series[epoch].f[i].inp = "open"
    /\ fileCallback(epoch, i, [series[epoch] EXCEPT !.f[i].inp = "error"],
                    TRUE)
    /\ last' = Call("archiveInpError", 0, series[epoch].matched[i], "unset",
                    TRUE, FALSE)
    /\ emitted' = <<>>
    /\ UNCHANGED <<archives, files, stored>>
    /\ ArchiveFrame

\* outp.on('error', callback): the write stream fails before its finish
archiveOutpError(epoch, i) ==
    /\ i \in FilesOf(series[epoch])
    /\ series[epoch].f[i].stage = "copy"
    /\ series[epoch].f[i].outp = "open"
    /\ fileCallback(epoch, i, [series[epoch] EXCEPT !.f[i].outp = "error"],
                    TRUE)
    /\ last' = Call("archiveOutpError", 0, series[epoch].matched[i],
                    "unset", TRUE, FALSE)
    /\ emitted' = <<>>
    /\ UNCHANGED <<archives, files, stored>>
    /\ ArchiveFrame

\* outp.on('finish', ...): everything is written; the unlink of the source
\* temp file is issued
archiveFinish(epoch, i) ==
    /\ i \in FilesOf(series[epoch])
    /\ series[epoch].f[i].stage = "copy"
    /\ series[epoch].f[i].inp = "open"
    /\ series[epoch].f[i].outp = "open"
    /\ series[epoch].f[i].copied = Len(series[epoch].f[i].temp.data)
    /\ series' = [series EXCEPT ![epoch].f[i].stage = "unlink",
                                ![epoch].f[i].inp = "ended",
                                ![epoch].f[i].outp = "finished"]
    /\ last' = Call("archiveFinish", 0, series[epoch].matched[i], "unset",
                    FALSE, FALSE)
    /\ emitted' = <<>>
    /\ UNCHANGED <<archives, files, stored, args>>
    /\ ArchiveFrame

\* fs.unlink(src_temp_file, callback) calls back
archiveUnlinked(epoch, i, err) ==
    /\ i \in FilesOf(series[epoch])
    /\ series[epoch].f[i].stage = "unlink"
    /\ fileCallback(epoch, i,
           IF err THEN [series[epoch] EXCEPT !.f[i].stage = "over"]
           ELSE [series[epoch] EXCEPT !.f[i].stage = "over",
                                      !.f[i].temp = NoFile],
           err)
    /\ last' = Call("archiveUnlinked", 0, series[epoch].matched[i], "unset",
                    err, FALSE)
    /\ emitted' = <<>>
    /\ UNCHANGED <<archives, files, stored>>
    /\ ArchiveFrame

\* what glob can match, in match order
Matches ==
    {<<>>, <<"a.log">>, <<"b.log">>, <<"a.log", "b.log">>}

\* the positions of the matched files of an invocation
FileIndexes == 1..2

\* the destination template with placeholders
Dated == "[yyyy]/[filename].log.gz"

\* what glob can match when at most one log file exists
FewMatches ==
    {found \in Matches : Len(found) <= 1}

\* archive calls, which may overlap, on an instance at work, up to the
\* start of each series; SeriesSpec follows the series themselves
NextArchive ==
    \/ NextFew
    \/ \E epoch \in Epochs : archive(epoch, Dated)
    \/ \E epoch \in Epochs, found \in FewMatches, err \in BOOLEAN :
           archiveGlobDone(epoch, found, err)

ArchiveSpec == Init /\ [][NextArchive]_vars

\* no archive invocation is under way
NoneRunning ==
    /\ archives = {}
    /\ \A e \in Epochs : series[e].stage \in {"none", "done"}

\* archive invocations made one after the other on an instance that does
\* nothing else
NextSeries ==
    \/ \E epoch \in Epochs, template \in Templates :
           NoneRunning /\ archive(epoch, template)
    \/ \E epoch \in Epochs, found \in Matches, err \in BOOLEAN :
           archiveGlobDone(epoch, found, err)
    \/ \E epoch \in Epochs, i \in FileIndexes, err \in BOOLEAN :
           archiveRenamed(epoch, i, err)
    \/ \E epoch \in Epochs, i \in FileIndexes, err \in BOOLEAN :
           archiveDirsMade(epoch, i, err)
    \/ \E epoch \in Epochs, i \in FileIndexes : archiveCopy(epoch, i)
    \/ \E epoch \in Epochs, i \in FileIndexes : archiveInpError(epoch, i)
    \/ \E epoch \in Epochs, i \in FileIndexes : archiveOutpError(epoch, i)
    \/ \E epoch \in Epochs, i \in FileIndexes : archiveFinish(epoch, i)
    \/ \E epoch \in Epochs, i \in FileIndexes, err \in BOOLEAN :
           archiveUnlinked(epoch, i, err)

SeriesSpec == InitOverLogs /\ [][NextSeries]_vars

----------------------------------------------------------------------------
\* clone(): new Logger(this.path, this.columns, this.args), then every truthy
\* internal arg of this instance is assigned to the new one. this.args never
\* holds a truthy useBuffer (the constructor and set() keep it out), so the
\* constructor of the new instance does not call enableBuffer: the new
\* instance has no bufferLines and no interval, and then gets this.useBuffer

clone ==
    /\ ~cloned.made
    /\ cloned' = [made |-> TRUE, useBuffer |-> useBuffer, hasBuffer |-> FALSE,
                  flushTimer |-> FALSE, lastPath |-> NoPath, args |-> args]
    /\ last' = Call("clone", 0, NoPath, "unset", FALSE, FALSE)
    /\ emitted' = <<>>
    /\ UNCHANGED <<useBuffer, bufferLines, flushInProgress, flushTimer,
                   bufferMaxLines, args, lastPath, files, pending, nprints,
                   failed, shutDown, lastRow, flushOnShutdown, handlers,
                   timers, archives, rot, series, stored, approximateTime,
                   lastEpoch, lastDateStr, row, debugLevelGiven, composed,
                   resolved>>

\* print(in_args) called on the instance clone() returned: with useBuffer
\* set bufferAppendLine pushes onto bufferLines, which the instance does not
\* have, and throws a TypeError; otherwise the line is appended as by print
clonePrint(path, syncArg, err) ==
    LET line == nprints + 1
        sync == IF syncArg = "unset" THEN cloned.args.sync
                ELSE syncArg = "true"
        threw == IF cloned.useBuffer THEN ~cloned.hasBuffer ELSE sync /\ err
    IN
    /\ cloned.made
    /\ nprints < MaxPrints
    /\ err => (~cloned.useBuffer /\ sync)
    /\ nprints' = line
    /\ resolved' = Append(resolved, path)
    /\ cloned' = [cloned EXCEPT !.lastPath = path]
    /\ IF cloned.useBuffer
       THEN UNCHANGED <<files, pending>>
       ELSE IF sync
            THEN /\ files' = IF err THEN files
                             ELSE appendFile(files, path, <<line>>, "print")
                 /\ UNCHANGED pending
            ELSE /\ pending' = pending \cup
                        {[kind |-> "print", path |-> path, payload |-> <<line>>]}
                 /\ UNCHANGED files
    /\ failed' = (failed \/ err)
    /\ last' = Call("clonePrint", line, path, syncArg, err, threw)
    /\ emitted' = <<>>
    /\ UNCHANGED <<useBuffer, bufferLines, flushInProgress, flushTimer,
                   bufferMaxLines, args, lastPath, shutDown, lastRow,
                   flushOnShutdown, handlers, timers, archives, rot, series,
                   stored, approximateTime, lastEpoch, lastDateStr, row,
                   debugLevelGiven, composed>>

NextClone ==
    \/ NextFew
    \/ clone
    \/ \E path \in Paths, syncArg \in SyncArgs, err \in BOOLEAN :
           nprints < MaxFewPrints /\ clonePrint(path, syncArg, err)

CloneSpec == Init /\ [][NextClone]_vars

----------------------------------------------------------------------------
\* enableBuffer(), called by the application on a constructed instance

enableBuffer ==
    /\ timers < MaxEnables
    /\ handlers < MaxEnables
    /\ useBuffer' = TRUE
    /\ bufferLines' = <<>>
    /\ flushTimer' = TRUE
    /\ timers' = timers + 1
    /\ handlers' = IF flushOnShutdown THEN handlers + 1 ELSE handlers
    /\ shutDown' = FALSE
    /\ last' = Call("enableBuffer", 0, NoPath, "unset", FALSE, FALSE)
    /\ emitted' = <<>>
    /\ UNCHANGED <<flushInProgress, bufferMaxLines, args, lastPath, files,
                   pending, nprints, failed, lastRow, flushOnShutdown,
                   archives, cloned, rot, series, stored, approximateTime,
                   lastEpoch, lastDateStr, row, debugLevelGiven, composed,
                   resolved>>

\* set('flushOnShutdown', value): the key is one of those set() assigns to
\* the instance itself
setFlushOnShutdown(value) ==
    /\ flushOnShutdown' = value
    /\ last' = Call("set", 0, NoPath, "unset", FALSE, FALSE)
    /\ emitted' = <<>>
    /\ UNCHANGED <<useBuffer, bufferLines, flushInProgress, flushTimer,
                   bufferMaxLines, args, lastPath, files, pending, nprints,
                   failed, shutDown, lastRow, handlers, timers, archives,
                   cloned, rot, series, stored, approximateTime, lastEpoch,
                   lastDateStr, row, debugLevelGiven, composed, resolved>>

\* A signal or an uncaught exception delivered to the process runs every
\* registered handler, each a shutdown() call: shutdown stands for them too
NextEnable ==
    \/ NextFew
    \/ enableBuffer
    \/ \E value \in BOOLEAN : setFlushOnShutdown(value)

EnableSpec == InitEnable /\ [][NextEnable]_vars

----------------------------------------------------------------------------
\* rotate(log_file, dest_path, callback). rot.stage is the file system call
\* or the stream copy the invocation waits for; rot.steps lists the steps
\* of the fallback that have succeeded; rot.calls counts the calls of the
\* callback and rot.result keeps the error of the first. In files an empty
\* sequence stands for a missing file as well as for an empty one

\* callback(err)
Called(r, err) ==
    [r EXCEPT !.calls = @ + 1,
              !.result = IF r.calls > 0 THEN @
                         ELSE IF err THEN "err" ELSE "ok"]

\* everything rotate leaves alone
RotateFrame ==
    UNCHANGED <<useBuffer, bufferLines, flushInProgress, flushTimer,
                bufferMaxLines, args, lastPath, pending, nprints, failed,
                shutDown, lastRow, flushOnShutdown, handlers, timers,
                archives, cloned, series, stored, approximateTime,
                lastEpoch, lastDateStr, row, debugLevelGiven, composed,
                resolved>>

\* the call: fs.rename(log_file, dest_path, ...) is issued. destOld is
\* whether a file exists at dest_path already
rotate(path, destOld) ==
    /\ rot.stage \in {"idle", "done"}
    /\ rot' = [NoRotate EXCEPT !.stage = "rename", !.src = path,
                               !.orig = files[path],
                               !.dest = IF destOld THEN File(Old) ELSE NoFile]
    /\ last' = Call("rotate", 0, path, "unset", FALSE, FALSE)
    /\ emitted' = <<>>
    /\ UNCHANGED files
    /\ RotateFrame

\* the callback of the first rename: outcome is "ok", "EXDEV" or "err" (any
\* other error). On EXDEV the second rename, to the source temp file, is
\* issued; otherwise the callback is called with the error or without one
rotateRenamed(outcome) ==
    /\ rot.stage = "rename"
    /\ IF outcome = "EXDEV"
       THEN /\ rot' = [rot EXCEPT !.stage = "srcRename"]
            /\ UNCHANGED files
       ELSE IF outcome = "ok"
       THEN /\ rot' = Called([rot EXCEPT !.stage = "done",
                                         !.dest = File(files[rot.src])],
                             FALSE)
            /\ files' = [files EXCEPT ![rot.src] = <<>>]
       ELSE /\ rot' = Called([rot EXCEPT !.stage = "done"], TRUE)
            /\ UNCHANGED files
    /\ last' = Call("renamed", 0, rot.src, "unset", outcome # "ok", FALSE)
    /\ emitted' = <<>>
    /\ RotateFrame

\* the callback of the rename to the source temp file: on an error the
\* callback is called and rotate is over; otherwise both streams are
\* created and piped
rotateSrcRenamed(err) ==
    /\ rot.stage = "srcRename"
    /\ IF err
       THEN /\ rot' = Called([rot EXCEPT !.stage = "done"], TRUE)
            /\ UNCHANGED files
       ELSE /\ rot' = [rot EXCEPT !.stage = "copy",
                                  !.srcTemp = File(files[rot.src]),
                                  !.destTemp = File(<<>>),
                                  !.inp = "open", !.outp = "open",
                                  !.steps = Append(@, "srcRename")]
            /\ files' = [files EXCEPT ![rot.src] = <<>>]
    /\ last' = Call("srcRenamed", 0, rot.src, "unset", err, FALSE)
    /\ emitted' = <<>>
    /\ RotateFrame

\* a copy that streams into dest_path itself
rotateCopyDirect ==
    /\ rot.stage = "copy"
    /\ rot.inp = "open"
    /\ rot.outp = "open"
    /\ rot.copied < Len(rot.srcTemp.data)
    /\ rot' = [rot EXCEPT !.copied = @ + 1,
                          !.dest = File(SubSeq(rot.srcTemp.data, 1,
                                               rot.copied + 1))]
    /\ last' = Call("copy", 0, rot.src, "unset", FALSE, FALSE)
    /\ emitted' = <<>>
    /\ UNCHANGED files
    /\ RotateFrame

\* inp.pipe(outp): the next chunk of the source temp file reaches the
\* destination temp file
rotateCopy ==
    /\ rot.stage = "copy"
    /\ rot.inp = "open"
    /\ rot.outp = "open"
    /\ rot.copied < Len(rot.srcTemp.data)
    /\ rot' = [rot EXCEPT !.copied = @ + 1,
                          !.destTemp = File(Append(@.data,
                                        rot.srcTemp.data[rot.copied + 1]))]
    /\ last' = Call("copy", 0, rot.src, "unset", FALSE, FALSE)
    /\ emitted' = <<>>
    /\ UNCHANGED files
    /\ RotateFrame

\* inp.on('error', callback): the read stream fails before its end. A pipe
\* does not end its destination when the source fails
rotateInpError ==
    /\ rot.stage = "copy"
    /\ rot.inp = "open"
    /\ rot' = Called([rot EXCEPT !.inp = "error"], TRUE)
    /\ last' = Call("inpError", 0, rot.src, "unset", TRUE, FALSE)
    /\ emitted' = <<>>
    /\ UNCHANGED files
    /\ RotateFrame

\* outp.on('error', callback): the write stream fails before its finish
rotateOutpError ==
    /\ rot.stage = "copy"
    /\ rot.outp = "open"
    /\ rot' = Called([rot EXCEPT !.outp = "error"], TRUE)
    /\ last' = Call("outpError", 0, rot.src, "unset", TRUE, FALSE)
    /\ emitted' = <<>>
    /\ UNCHANGED files
    /\ RotateFrame

\* outp.on('finish', ...): the read stream has ended and everything is
\* written; the rename of the destination temp file is issued
rotateFinish ==
    /\ rot.stage = "copy"
    /\ rot.inp = "open"
    /\ rot.outp = "open"
    /\ rot.copied = Len(rot.srcTemp.data)
    /\ rot' = [rot EXCEPT !.stage = "destRename", !.inp = "ended",
                          !.outp = "finished",
                          !.steps = Append(@, "copy")]
    /\ last' = Call("finish", 0, rot.src, "unset", FALSE, FALSE)
    /\ emitted' = <<>>
    /\ UNCHANGED files
    /\ RotateFrame

\* a final rename whose callback goes on to the unlink whatever happened
rotateDestRenamedAlways(err) ==
    /\ rot.stage = "destRename"
    /\ rot' = IF err THEN [rot EXCEPT !.stage = "unlink"]
              ELSE [rot EXCEPT !.stage = "unlink", !.dest = rot.destTemp,
                               !.destTemp = NoFile,
                               !.steps = Append(@, "destRename")]
    /\ last' = Call("destRenamed", 0, rot.src, "unset", err, FALSE)
    /\ emitted' = <<>>
    /\ UNCHANGED files
    /\ RotateFrame

\* the callback of the rename of the destination temp file to dest_path: on
\* an error the callback is called and rotate is over; otherwise the unlink
\* of the source temp file is issued
rotateDestRenamed(err) ==
    /\ rot.stage = "destRename"
    /\ rot' = IF err THEN Called([rot EXCEPT !.stage = "done"], TRUE)
              ELSE [rot EXCEPT !.stage = "unlink", !.dest = rot.destTemp,
                               !.destTemp = NoFile,
                               !.steps = Append(@, "destRename")]
    /\ last' = Call("destRenamed", 0, rot.src, "unset", err, FALSE)
    /\ emitted' = <<>>
    /\ UNCHANGED files
    /\ RotateFrame

\* the callback of the unlink of the source temp file calls the callback
rotateUnlinked(err) ==
    /\ rot.stage = "unlink"
    /\ rot' = Called(IF err THEN [rot EXCEPT !.stage = "done"]
                     ELSE [rot EXCEPT !.stage = "done", !.srcTemp = NoFile,
                                      !.steps = Append(@, "unlink")],
                     err)
    /\ last' = Call("unlinked", 0, rot.src, "unset", err, FALSE)
    /\ emitted' = <<>>
    /\ UNCHANGED files
    /\ RotateFrame

\* the outcomes of the first rename
RenameOutcomes == {"ok", "EXDEV", "err"}

\* rotate on an instance that does nothing else: nothing writes the file
\* that is rotated
NextRotate ==
    \/ \E path \in Paths, destOld \in BOOLEAN : rotate(path, destOld)
    \/ \E outcome \in RenameOutcomes : rotateRenamed(outcome)
    \/ \E err \in BOOLEAN : rotateSrcRenamed(err)
    \/ rotateCopy
    \/ rotateInpError
    \/ rotateOutpError
    \/ rotateFinish
    \/ \E err \in BOOLEAN : rotateDestRenamed(err)
    \/ \E err \in BOOLEAN : rotateUnlinked(err)

RotateSpec == InitOverLogs /\ [][NextRotate]_vars

----------------------------------------------------------------------------
\* debug(level, msg, data), shouldLog(level) and the set() calls of the
\* debugLevel and approximateTime keys

Levels == 0..MaxLevel

\* shouldLog(level)
shouldLog(level) ==
    args.debugLevel >= level

\* debug calls print with category 'debug' and the level as code when the
\* level is at most this.args.debugLevel, and does nothing otherwise
debug(level, path, echo, err, clock) ==
    IF level <= args.debugLevel
    THEN print(path, "unset", echo, err,
               [now |-> 0, category |-> "debug", code |-> level], clock)
    ELSE /\ row' = [NoRow EXCEPT !.category = "debug", !.code = level]
         /\ last' = Call("debug", 0, NoPath, "unset", FALSE, FALSE)
         /\ emitted' = <<>>
         /\ UNCHANGED <<useBuffer, bufferLines, flushInProgress, flushTimer,
                        bufferMaxLines, args, lastPath, files, pending, nprints,
                        failed, shutDown, lastRow, flushOnShutdown, handlers,
                        timers, archives, cloned, rot, series, stored,
                        approximateTime, lastEpoch, lastDateStr, debugLevelGiven,
                        composed, resolved>>

\* set('debugLevel', level): the key is stored in this.args
setDebugLevel(level) ==
    /\ args' = [args EXCEPT !.debugLevel = level]
    /\ debugLevelGiven' = level
    /\ last' = Call("set", 0, NoPath, "unset", FALSE, FALSE)
    /\ emitted' = <<>>
    /\ UNCHANGED <<useBuffer, bufferLines, flushInProgress, flushTimer,
                   bufferMaxLines, lastPath, files, pending, nprints, failed,
                   shutDown, lastRow, flushOnShutdown, handlers, timers,
                   archives, cloned, rot, series, stored, approximateTime,
                   lastEpoch, lastDateStr, row, composed, resolved>>

\* set('approximateTime', value): the key is not among those set() assigns
\* to the instance itself, so the value is stored in this.args
setApproximateTime(value) ==
    /\ args' = [args EXCEPT !.approximateTime =
                                IF value THEN "true" ELSE "false"]
    /\ last' = Call("set", 0, NoPath, "unset", FALSE, FALSE)
    /\ emitted' = <<>>
    /\ UNCHANGED <<useBuffer, bufferLines, flushInProgress, flushTimer,
                   bufferMaxLines, lastPath, files, pending, nprints, failed,
                   shutDown, lastRow, flushOnShutdown, handlers, timers,
                   archives, cloned, rot, series, stored, approximateTime,
                   lastEpoch, lastDateStr, row, debugLevelGiven, composed,
                   resolved>>

\* the debugLevel key of the constructor's args
DebugLevelArgs == Levels \cup {Absent}

\* an instance constructed with any debugLevel
InitDebug ==
    \E dbgArg \in DebugLevelArgs :
        /\ instance("unset", dbgArg, "unset")
        /\ files = [p \in Paths |-> <<>>]

\* debug calls and set('debugLevel') calls in any order
NextDebug ==
    \/ \E level \in Levels, path \in Paths, echo \in BOOLEAN,
          err \in BOOLEAN :
           /\ nprints < MaxFewPrints
           /\ debug(level, path, echo, err, Still)
    \/ \E level \in Levels : setDebugLevel(level)
    \/ NextFew

DebugSpec == InitDebug /\ [][NextDebug]_vars

\* the approximateTime key of the constructor's args
ApproximateTimeArgs == {"unset", "true", "false"}

\* an instance constructed with any approximateTime
InitDate ==
    \E atArg \in ApproximateTimeArgs :
        /\ instance("unset", Absent, atArg)
        /\ files = [p \in Paths |-> <<>>]

\* records with an explicit timestamp
TimedArgs ==
    [now : Times, category : {""}, code : {0}]

\* the approximate clock snapshot holds the time of the system clock or
\* lags behind it
LaggingClocks ==
    {clock \in Clocks : clock.approximate \in {clock.system,
                                               clock.system - 1}}

\* prints at any time, given or read from a clock, in any order, and
\* set('approximateTime') calls
NextDate ==
    \/ \E path \in Paths, in_args \in TimedArgs :
           /\ nprints < MaxFewPrints
           /\ print(path, "unset", FALSE, FALSE, in_args, Still)
    \/ \E path \in Paths, clock \in LaggingClocks :
           /\ nprints < MaxFewPrints
           /\ print(path, "unset", FALSE, FALSE, PlainArgs, clock)
    \/ \E in_args \in TimedArgs : printSuppressed(in_args, Still)
    \/ \E value \in BOOLEAN : setApproximateTime(value)

DateSpec == InitDate /\ [][NextDate]_vars

----------------------------------------------------------------------------
\* The columns and the line print makes of a record with the default filter
\* and serializer. A string is the sequence of its characters

\* the characters values are made of
Chars == {"a", "[", "]", "\n", "\r"}

\* os.EOL
EOL == "\n"

Strings == UNION {[1..n -> Chars] : n \in 0..MaxChars}

\* a value that is a string, and the value of a column the record lacks
StringValue(chars) ==
    [kind |-> "string", chars |-> chars]

Undefined ==
    [kind |-> "undefined", chars |-> <<>>]

\* the ways of cutting a string into n consecutive pieces: the places of
\* the n - 1 cuts
Cuts(chars, n) ==
    {cut \in [1..(n - 1) -> 0..Len(chars)] :
        \A i \in 2..(n - 1) : cut[i - 1] <= cut[i]}

\* the i-th of the n pieces of a string cut at those places
Piece(chars, cut, n, i) ==
    SubSeq(chars, (IF i = 1 THEN 0 ELSE cut[i - 1]) + 1,
           IF i = n THEN Len(chars) ELSE cut[i])

\* the values of the n columns of a record, in column order: strings
\* holding MaxChars characters in all, or nothing at all
Records(n) ==
    UNION {{[i \in 1..n |-> StringValue(Piece(chars, cut, n, i))] :
               cut \in Cuts(chars, n)} : chars \in Strings}
        \cup {[i \in 1..n |-> Undefined]}

\* .replace(/[\r\n]/g, ' ')
Spaced(chars) ==
    [i \in 1..Len(chars) |-> IF chars[i] \in {"\r", "\n"} THEN " "
                             ELSE chars[i]]

\* .replace(/\]\[/g, ''): one pass from the left that drops every match
\* and goes on behind it
RECURSIVE Stripped(_)
Stripped(chars) ==
    IF Len(chars) < 2 THEN chars
    ELSE IF chars[1] = "]" /\ chars[2] = "["
    THEN Stripped(SubSeq(chars, 3, Len(chars)))
    ELSE <<chars[1]>> \o Stripped(Tail(chars))

\* the default cleansing of a value: a missing value is the empty string
Cleanse(val) ==
    IF val.kind = "undefined" THEN <<>>
    ELSE Stripped(Spaced(val.chars))

\* cols.join('][')
RECURSIVE Join(_)
Join(cols) ==
    IF Len(cols) = 0 THEN <<>>
    ELSE IF Len(cols) = 1 THEN cols[1]
    ELSE cols[1] \o <<"]", "[">> \o Join(Tail(cols))

\* '[' + cols.join('][') + "]" + os.EOL
Serialize(cols) ==
    <<"[">> \o Join(cols) \o <<"]", EOL>>

\* print populates the columns and composes the log row
composeRow(vals) ==
    /\ composed' = [vals |-> vals,
                    cols |-> [i \in 1..Len(vals) |-> Cleanse(vals[i])],
                    line |-> Serialize([i \in 1..Len(vals) |->
                                           Cleanse(vals[i])])]
    /\ UNCHANGED <<useBuffer, bufferLines, flushInProgress, flushTimer,
                   bufferMaxLines, args, lastPath, files, pending, nprints,
                   failed, shutDown, last, lastRow, emitted,
                   flushOnShutdown, handlers, timers, archives, cloned, rot,
                   series, stored, approximateTime, lastEpoch, lastDateStr,
                   row, debugLevelGiven, resolved>>

\* the row of one record
NextSerial ==
    /\ composed = NoLine
    /\ \E n \in 1..MaxColumns : \E vals \in Records(n) : composeRow(vals)

SerialSpec == Init /\ [][NextSerial]_vars

----------------------------------------------------------------------------
\* What the claims speak of

\* the appends started by flushBuffer that are still outstanding
Flushes(pend) == {w \in pend : w.kind = "flush"}

\* how often line l occurs in a sequence of lines
Occurrences(seq, l) == Cardinality({k \in 1..Len(seq) : seq[k] = l})

\* how many copies of line l are held: in the buffer, in the outstanding
\* payloads and in the files
Copies(l) ==
    Occurrences(bufferLines, l)
    + Cardinality(UNION {{<<w, k>> : k \in {i \in 1..Len(w.payload) :
                                                w.payload[i] = l}} :
                         w \in pending})
    + Cardinality(UNION {{<<p, k>> : k \in {i \in 1..Len(files[p]) :
                                                files[p][i].line = l}} :
                         p \in Paths})

----------------------------------------------------------------------------
\* C1: at most one append started by flushBuffer is outstanding at any time,
\* and a flushBuffer call (from the timer or from the size threshold) made
\* while a flush is in progress or while the buffer is empty starts no write
\* and leaves the buffer as it was at the call.
C1_SingleFlight ==
    [][ /\ Cardinality(Flushes(pending')) <= 1
        /\ (last'.op = "tick" /\ (flushInProgress \/ Len(bufferLines) = 0))
               => /\ pending' = pending
                  /\ files' = files
                  /\ bufferLines' = bufferLines
        /\ (/\ last'.op = "print"
            /\ useBuffer
            /\ Len(bufferLines) + 1 >= bufferMaxLines
            /\ flushInProgress)
               => /\ pending' = pending
                  /\ files' = files
                  /\ bufferLines' = Append(bufferLines, last'.line)
      ]_vars

\* a timer tick has just found a flush outstanding and lines waiting
C1_Witness ==
    /\ last.op = "tick"
    /\ useBuffer
    /\ flushInProgress
    /\ Len(bufferLines) > 0
    /\ Cardinality(Flushes(pending)) = 1

\* C2: shutdown() on a buffering instance that holds pending lines, once it
\* has returned: the file gained those lines, the buffer is empty, useBuffer
\* reads false and args.sync reads true.
C2_ShutdownDrains ==
    [][ (/\ last'.op = "shutdown"
         /\ useBuffer
         /\ Len(bufferLines) > 0
         /\ ~last'.threw)
            => /\ files' = [files EXCEPT ![lastPath] =
                                @ \o Written(bufferLines, "shutdown")]
               /\ bufferLines' = <<>>
               /\ useBuffer' = FALSE
               /\ args'.sync = TRUE
      ]_vars

\* shutdown has just returned after draining lines to the last path
C2_Witness ==
    /\ last.op = "shutdown"
    /\ ~last.threw
    /\ shutDown
    /\ ~useBuffer
    /\ args.sync
    /\ lastPath \in Paths
    /\ Len(files[lastPath]) > 0
    /\ files[lastPath][Len(files[lastPath])].by = "shutdown"

\* C3: while every append succeeds, each line printed is held at exactly one
\* place among the buffer, the outstanding payloads and the files; so once
\* nothing is buffered or outstanding every line is in a file, also when
\* shutdown drained the buffer while a flush was outstanding.
C3_ExactlyOnce ==
    ~failed => \A l \in 1..nprints : Copies(l) = 1

\* a flush that was outstanding when shutdown drained the buffer has
\* completed after the drain, and nothing is left unwritten
C3_Witness ==
    /\ ~failed
    /\ shutDown
    /\ pending = {}
    /\ nprints >= 2
    /\ \E p \in Paths : \E i, j \in 1..Len(files[p]) :
           /\ i < j
           /\ files[p][i].by = "shutdown"
           /\ files[p][j].by = "flush"

\* the step is a print whose line was appended synchronously: it is in the
\* file at its path when print returns, and nothing was buffered or issued
SyncAppended ==
    /\ files' = [files EXCEPT ![last'.path] =
                     @ \o <<[line |-> last'.line, by |-> "print"]>>]
    /\ pending' = pending
    /\ bufferLines' = bufferLines

\* the step is a print whose line was issued as an asynchronous append
AsyncIssued ==
    /\ pending' = pending \cup
           {[kind |-> "print", path |-> last'.path, payload |-> <<last'.line>>]}
    /\ files' = files
    /\ bufferLines' = bufferLines

\* the sync flag of the record a print step merged: the per-call value, or
\* the instance default when the call gives none
StepSync ==
    \/ last'.syncArg = "true"
    \/ last'.syncArg = "unset" /\ args.sync

\* C4 as claimed: after shutdown() has run on a buffering instance every
\* later print is appended synchronously, none buffered, none asynchronous.
C4_Original ==
    [][ (shutDown /\ last'.op = "print" /\ ~last'.threw) => SyncAppended ]_vars

\* C4 as amended: shutdown() returning on a buffering instance turns
\* buffering off and the sync default on; from then on no print is buffered,
\* the sync default changes only by set, and a print is appended
\* synchronously exactly when its merged sync flag is set (no sync:false of
\* its own, no set('sync', false) before it), asynchronously otherwise.
C4_Amended ==
    [][ /\ (last'.op = "shutdown" /\ useBuffer /\ ~last'.threw)
               => (shutDown' /\ ~useBuffer' /\ args'.sync)
        /\ shutDown => ~useBuffer
        /\ (shutDown /\ last'.op # "set") => args'.sync = args.sync
        /\ (shutDown /\ last'.op = "print" /\ ~last'.threw)
               => IF StepSync THEN SyncAppended ELSE AsyncIssued
      ]_vars

\* after a shutdown, a print giving no sync of its own has just been
\* appended synchronously
C4_Witness ==
    /\ shutDown
    /\ last.op = "print"
    /\ last.syncArg = "unset"
    /\ ~last.threw
    /\ args.sync
    /\ Len(files[last.path]) > 0
    /\ files[last.path][Len(files[last.path])] =
           [line |-> last.line, by |-> "print"]

\* C5: when the synchronous drain inside shutdown() fails, the failure is
\* raised to the caller of shutdown and the buffered lines stay buffered.
C5_DrainFailureRaised ==
    [][ (last'.op = "shutdown" /\ last'.ioerr)
            => /\ last'.threw
               /\ bufferLines' = bufferLines
               /\ Len(bufferLines') > 0
               /\ files' = files
      ]_vars

\* shutdown has just thrown on a failed drain and the lines are still held
C5_Witness ==
    /\ last.op = "shutdown"
    /\ last.ioerr
    /\ last.threw
    /\ useBuffer
    /\ Len(bufferLines) > 0

\* C6: with no flush in flight, the print that brings the buffer to
\* bufferMaxLines lines starts a flush whose payload is exactly those
\* bufferMaxLines lines, and a flush that completes adds exactly the lines
\* of its payload to its file.
C6_ThresholdFlush ==
    [][ /\ (/\ last'.op = "print"
            /\ useBuffer
            /\ ~flushInProgress
            /\ Len(bufferLines) + 1 = bufferMaxLines
            /\ ~last'.threw)
               => LET payload == Append(bufferLines, last'.line) IN
                  /\ Len(payload) = bufferMaxLines
                  /\ bufferLines' = <<>>
                  /\ IF args.sync
                     THEN /\ files' = [files EXCEPT ![last'.path] =
                                           @ \o Written(payload, "flush")]
                          /\ pending' = pending
                     ELSE /\ pending' = pending \cup
                                 {[kind |-> "flush", path |-> last'.path,
                                   payload |-> payload]}
                          /\ flushInProgress'
                          /\ files' = files
        /\ (last'.op = "done" /\ ~last'.ioerr)
               => \E w \in pending :
                      /\ pending' = pending \ {w}
                      /\ files' = [files EXCEPT ![w.path] =
                                       @ \o Written(w.payload, w.kind)]
                      /\ Len(files'[w.path]) =
                             Len(files[w.path]) + Len(w.payload)
      ]_vars

\* the first bufferMaxLines prints have just started a flush of exactly
\* those lines
C6_Witness ==
    /\ last.op = "print"
    /\ useBuffer
    /\ ~failed
    /\ bufferMaxLines >= 2
    /\ nprints = bufferMaxLines
    /\ bufferLines = <<>>
    /\ \A p \in Paths : files[p] = <<>>
    /\ pending = {[kind |-> "flush", path |-> last.path,
                   payload |-> [i \in 1..bufferMaxLines |-> i]]}

\* line l is held in the buffer
InBuffer(l) == \E k \in 1..Len(bufferLines) : bufferLines[k] = l

\* line l is in the file at path
InFileAt(fs, path, l) == \E k \in 1..Len(fs[path]) : fs[path][k].line = l

\* line l is in some file
InFile(l) == \E p \in Paths : InFileAt(files, p, l)

\* C7: on a buffering instance whose timer keeps firing and whose appends
\* complete, a line held in a buffer of fewer than bufferMaxLines lines is
\* eventually in a file, whether or not any further call is made.
C7_TimerFlushes ==
    \A l \in 1..MaxLivePrints :
        (useBuffer /\ InBuffer(l) /\ Len(bufferLines) < bufferMaxLines)
            ~> InFile(l)

\* a timer tick has started the flush of a partial buffer, which completed
C7_Witness ==
    /\ last.op = "done"
    /\ useBuffer
    /\ bufferMaxLines > 1
    /\ nprints = 1
    /\ bufferLines = <<>>
    /\ \E p \in Paths : files[p] = <<[line |-> 1, by |-> "flush"]>>

\* C8 as claimed: every print made with the sync flag set has its line in
\* the target file when it returns.
C8_Original ==
    [][ (last'.op = "print" /\ StepSync /\ ~last'.threw)
            => InFileAt(files', last'.path, last'.line) ]_vars

\* C8 as amended: every print made with the sync flag set on an instance
\* whose buffering is not enabled has its line appended to the target file
\* when it returns.
C8_Amended ==
    [][ (last'.op = "print" /\ ~useBuffer /\ StepSync /\ ~last'.threw)
            => /\ SyncAppended
               /\ InFileAt(files', last'.path, last'.line) ]_vars

\* a print passing sync: true on an instance that never buffered and whose
\* default is asynchronous has just returned with its line in the file
C8_Witness ==
    /\ last.op = "print"
    /\ last.syncArg = "true"
    /\ ~last.threw
    /\ ~useBuffer
    /\ ~shutDown
    /\ ~args.sync
    /\ InFileAt(files, last.path, last.line)

\* the step is a print whose line went to the buffer: it is the buffer's
\* last line, or the buffer with it was swapped out by the flush it caused
Buffered ==
    LET buf == Append(bufferLines, last'.line) IN
    \/ /\ bufferLines' = buf
       /\ pending' = pending
       /\ files' = files
    \/ /\ bufferLines' = <<>>
       /\ pending' = pending \cup
              {[kind |-> "flush", path |-> last'.path, payload |-> buf]}
       /\ files' = files
    \/ /\ bufferLines' = <<>>
       /\ pending' = pending
       /\ files' = [files EXCEPT ![last'.path] = @ \o Written(buf, "flush")]

\* C9: a print delivers its line in exactly one mode (Buffered, SyncAppended
\* and AsyncIssued exclude one another): to the buffer if buffering is
\* enabled, else by a synchronous append if the merged sync flag is set,
\* else by an asynchronous append.
C9_ModePrecedence ==
    [][ (last'.op = "print" /\ ~last'.threw)
            => IF useBuffer THEN Buffered
               ELSE IF StepSync THEN SyncAppended
               ELSE AsyncIssued
      ]_vars

\* a print passing sync: true on a buffering instance has just been
\* buffered, nothing written
C9_Witness ==
    /\ last.op = "print"
    /\ last.syncArg = "true"
    /\ useBuffer
    /\ Len(bufferLines) > 0
    /\ bufferLines[Len(bufferLines)] = last.line
    /\ ~InFile(last.line)
    /\ pending = {}

\* the entries of the file at path that flushBuffer wrote
FlushWritten(path) == SelectSeq(files[path], LAMBDA e : e.by = "flush")

\* lines in print-call order, none skipped
InCallOrder(seq) == \A k \in 1..(Len(seq) - 1) : seq[k + 1] = seq[k] + 1

\* C10: a flushed payload holds the buffered lines in print-call order, and
\* in every file the lines written by flushes stand in the order the
\* flushes were triggered: a payload of a later flush never precedes or
\* splits that of an earlier one.
C10_FlushOrder ==
    /\ InCallOrder(bufferLines)
    /\ \A w \in Flushes(pending) :
           /\ InCallOrder(w.payload)
           /\ \A k \in 1..Len(bufferLines) :
                  w.payload[Len(w.payload)] < bufferLines[k]
           /\ \A p \in Paths : \A k \in 1..Len(FlushWritten(p)) :
                  FlushWritten(p)[k].line < w.payload[1]
    /\ \A p \in Paths : \A i, j \in 1..Len(FlushWritten(p)) :
           i < j => FlushWritten(p)[i].line < FlushWritten(p)[j].line

\* one file holds the payloads of at least two flushes: all the lines
\* printed, more than a first flush can carry
C10_Witness ==
    /\ last.op = "done"
    /\ ~failed
    /\ pending = {}
    /\ nprints > bufferMaxLines
    /\ \E p \in Paths : Len(FlushWritten(p)) = nprints

----------------------------------------------------------------------------
\* C11: when the append of a flush started in asynchronous buffered mode
\* fails, the lines of its payload are not put back into the buffer and are
\* in no file, and the in-flight marker is cleared all the same, so that
\* later flushes can start.

\* the outstanding flush whose completion the step is, if it is one
FlushCompleted ==
    {w \in Flushes(pending) : pending' = pending \ {w}}

C11_FlushFailure ==
    [][(last'.op = "done" /\ last'.ioerr /\ FlushCompleted # {})
       => /\ bufferLines' = bufferLines
          /\ files' = files
          /\ \A w \in FlushCompleted :
                 \A k \in 1..Len(w.payload) : Copies(w.payload[k])' = 0
          /\ ~flushInProgress']_vars

\* the append of a flush of a buffering instance has just failed: its lines
\* are nowhere, the marker is clear and the lines printed meanwhile wait in
\* the buffer
C11_Witness ==
    /\ useBuffer /\ ~shutDown
    /\ last.op = "done" /\ last.ioerr
    /\ ~flushInProgress
    /\ Len(bufferLines) > 0
    /\ \E l \in 1..nprints : Copies(l) = 0

----------------------------------------------------------------------------
\* C12: every flush that flushBuffer starts emits exactly one bufferFlushed
\* event, emitted when the in-flight marker has been cleared and carrying
\* exactly the payload the flush took out of the buffer: a flush in
\* synchronous mode before the call returns, a flush in asynchronous mode
\* when its append completes.

\* the bufferFlushed events among what a call emitted
FlushEvents(em) == SelectSeq(em, LAMBDA e : e.name = "bufferFlushed")

\* the step is a print or a tick whose flushBuffer gets past its guard in
\* synchronous mode
SyncFlushStarted ==
    /\ last'.op \in {"print", "tick"}
    /\ useBuffer /\ args.sync /\ ~flushInProgress
    /\ bufferLines' = <<>>
    /\ last'.op = "tick" => bufferLines # <<>>

\* the payload such a flush takes out of the buffer
StartedPayload ==
    IF last'.op = "print" THEN Append(bufferLines, last'.line)
    ELSE bufferLines

C12_EveryFlushEmits ==
    [][/\ SyncFlushStarted
          => FlushEvents(emitted')
                 = <<Event("bufferFlushed", StartedPayload, FALSE)>>
       /\ \A w \in FlushCompleted :
             last'.op = "done"
                 => FlushEvents(emitted')
                        = <<Event("bufferFlushed", w.payload, FALSE)>>]_vars

----------------------------------------------------------------------------
\* C13: whenever a bufferFlushed event is observed, the payload it carries
\* has already been appended to the output file: a handler that reads the
\* file sees every line of that flush.

C13_FlushedIsWritten ==
    \A k \in 1..Len(emitted) :
        emitted[k].name = "bufferFlushed"
            => \A i \in 1..Len(emitted[k].payload) :
                   InFileAt(files, last.path, emitted[k].payload[i])

----------------------------------------------------------------------------
\* C14: a print whose row is not suppressed emits the row event exactly
\* once, after the write decision (line buffered, appended synchronously, or
\* asynchronous append issued) and without waiting for an asynchronous
\* append to complete; a suppressed print emits none.

\* the row events among what a call emitted
RowEvents(em) == SelectSeq(em, LAMBDA e : e.name = "row")

\* the step emits one row event, for the line of the print, as the last
\* thing the call does
OneRowEvent ==
    /\ Len(RowEvents(emitted')) = 1
    /\ emitted'[Len(emitted')].name = "row"
    /\ emitted'[Len(emitted')].payload = <<last'.line>>

\* C14 as claimed, of every print whose row is not suppressed
C14_Original ==
    [][/\ last'.op = "print" => OneRowEvent
       /\ last'.op = "suppressed" => RowEvents(emitted') = <<>>]_vars

\* C14 of the prints that return: the row event comes with the line
\* buffered, appended or issued, an issued append being still outstanding
C14_Amended ==
    [][/\ (last'.op = "print" /\ ~last'.threw)
          => /\ OneRowEvent
             /\ Buffered \/ SyncAppended \/ AsyncIssued
             /\ AsyncIssued => \A p \in Paths :
                                   ~InFileAt(files', p, last'.line)
       /\ (last'.op = "print" /\ last'.threw) => emitted' = <<>>
       /\ last'.op # "print" => RowEvents(emitted') = <<>>]_vars

\* a print has returned and emitted its row event while its asynchronous
\* append is outstanding and its line in no file
C14_Witness ==
    /\ last.op = "print"
    /\ Len(emitted) > 0
    /\ emitted[Len(emitted)] = Event("row", <<last.line>>, FALSE)
    /\ [kind |-> "print", path |-> last.path, payload |-> <<last.line>>]
           \in pending
    /\ ~InFile(last.line)

----------------------------------------------------------------------------
\* C15: when the serializer returns false for a row, print writes to no
\* file, issues no append, adds nothing to the buffer, echoes nothing,
\* emits no row event and leaves this.lastRow and this.lastPath as they were.

C15_Suppressed ==
    [][last'.op = "suppressed"
          => /\ files' = files
             /\ pending' = pending
             /\ bufferLines' = bufferLines
             /\ emitted' = <<>>
             /\ lastRow' = lastRow
             /\ lastPath' = lastPath]_vars

\* a row has just been suppressed on an instance that remembers an earlier
\* line and its path and holds lines in its buffer
C15_Witness ==
    /\ last.op = "suppressed"
    /\ lastRow > 0
    /\ lastPath \in Paths
    /\ Len(bufferLines) > 0
    /\ emitted = <<>>

----------------------------------------------------------------------------
\* C16: the persistent defaults this.args are left exactly as they were by
\* print (with or without per-call overrides), by flushBuffer and by
\* archive: what one call passes or computes never shows in later rows.

C16_ArgsKept ==
    [][last'.op \in {"print", "suppressed", "tick", "done", "archive",
                     "globbed"}
          => args' = args]_vars

----------------------------------------------------------------------------
\* C17: clone() of an instance, buffering or not, yields an instance with
\* the same defaults that has its own empty buffer and its own flush timer
\* when it buffers; a print on the clone whose append does not fail succeeds
\* and leaves the original's buffer as it is.

C17_CloneWorks ==
    [][/\ last'.op = "clone"
          => /\ cloned'.args = args
             /\ cloned'.useBuffer = useBuffer
             /\ cloned'.useBuffer
                    => cloned'.hasBuffer /\ cloned'.flushTimer
       /\ last'.op = "clonePrint"
          => /\ bufferLines' = bufferLines
             /\ ~last'.ioerr => ~last'.threw]_vars

----------------------------------------------------------------------------
\* C18: when flushOnShutdown is given as false, as a constructor arg
\* together with useBuffer or by set() before enableBuffer, enabling the
\* buffer registers no SIGTERM, SIGINT, SIGQUIT or uncaughtException
\* handler.

C18_NoHandlers ==
    /\ []((last.op = "new" /\ args.flushOnShutdown = "false" /\ useBuffer)
              => handlers = 0)
    /\ [][(last'.op = "enableBuffer" /\ ~flushOnShutdown)
              => handlers' = handlers]_vars

----------------------------------------------------------------------------
\* C19: with auto-shutdown configured the shutdown handlers of an instance
\* are registered once, whatever sequence of enableBuffer, shutdown and
\* enableBuffer again is run, and a shutdown run by a handler that returns
\* leaves buffering disabled.

C19_RegisteredOnce ==
    /\ [](handlers <= 1)
    /\ [][(last'.op = "shutdown" /\ ~last'.threw) => ~useBuffer']_vars

----------------------------------------------------------------------------
\* C20: shutdown() on an instance whose buffering is disabled, because it
\* was never enabled or has been shut down, writes to no file and changes
\* nothing of the instance: a second shutdown leaves the files and the
\* state as the first left them.

C20_ShutdownIdempotent ==
    [][(last'.op = "shutdown" /\ ~useBuffer)
          => /\ ~last'.threw
             /\ UNCHANGED <<useBuffer, bufferLines, flushInProgress,
                            flushTimer, bufferMaxLines, args, lastPath,
                            files, pending, nprints, lastRow,
                            flushOnShutdown, handlers, timers>>]_vars

\* shutdown has been called again on an instance already shut down whose
\* sync default had since been set to false, and has left it so
C20_Witness ==
    /\ last.op = "shutdown"
    /\ shutDown
    /\ ~useBuffer
    /\ ~args.sync

----------------------------------------------------------------------------
\* the steps of rotate's cross-device fallback, in the order of the code
FallbackSteps ==
    <<"srcRename", "copy", "destRename", "unlink">>

\* whether sequence s begins sequence t
IsPrefix(s, t) ==
    /\ Len(s) <= Len(t)
    /\ \A i \in 1..Len(s) : s[i] = t[i]

\* a rotate invocation has called its callback with an error
RotateFailed ==
    rot.calls > 0 /\ rot.result = "err"

----------------------------------------------------------------------------
\* C21: every rotate invocation given a callback calls it exactly once,
\* with success or with the first failure, whatever the outcomes of the
\* first rename, the rename to the source temp file, the read stream, the
\* write stream, the final rename and the unlink: never twice, and once
\* when the invocation is over.

C21_CalledOnce ==
    /\ rot.calls <= 1
    /\ rot.stage = "done" => rot.calls = 1

----------------------------------------------------------------------------
\* C22: in the cross-device fallback of rotate the steps succeed in the
\* order rename to source temp, copy, rename onto the destination, unlink
\* of the source temp; once a step has failed no later step runs and no
\* file changes; and the source temp file is deleted only after the rename
\* onto the destination has succeeded.

C22_FallbackOrder ==
    /\ [](/\ IsPrefix(rot.steps, FallbackSteps)
          /\ (rot.steps # <<>> /\ ~rot.srcTemp.exists)
                => /\ Len(rot.steps) = 4
                   /\ rot.dest = File(rot.orig))
    /\ [][(RotateFailed /\ rot'.stage # "rename")
              => /\ rot'.steps = rot.steps
                 /\ rot'.srcTemp = rot.srcTemp
                 /\ rot'.destTemp = rot.destTemp
                 /\ rot'.dest = rot.dest]_vars

\* a fallback has run all four steps on a file of two lines and rotate has
\* reported success
C22_Witness ==
    /\ rot.steps = FallbackSteps
    /\ Len(rot.orig) = 2
    /\ rot.result = "ok"

----------------------------------------------------------------------------
\* C23: with nothing else writing the file, the destination path of rotate
\* never holds a part of the source content: it holds what it held before
\* or the whole original content; and when rotate reports success the
\* destination holds exactly the original content and the source path
\* holds no file.

C23_Atomic ==
    /\ rot.dest \in {NoFile, File(Old), File(rot.orig)}
    /\ (last.op \in {"renamed", "unlinked"} /\ rot.result = "ok")
          => /\ rot.dest = File(rot.orig)
             /\ files[rot.src] = <<>>

\* the copy of a file of two lines is half way: the destination still holds
\* what it held before
C23_Witness ==
    /\ rot.stage = "copy"
    /\ Len(rot.orig) = 2
    /\ rot.copied = 1
    /\ rot.dest = File(Old)

----------------------------------------------------------------------------
\* a matched file is between the start of its rename and its last callback
InProgress(file) ==
    file.stage \in {"rename", "mkdirp", "copy", "unlink"}

\* the streams of a matched file have been created
Streamed(file) ==
    file.inp # "none"

----------------------------------------------------------------------------
\* C24: in an archive invocation at most one matched file is in progress at
\* a time; a file is started only when every file matched before it has
\* completed without an error; and once a file has failed the invocation is
\* over, its callback having received the failure, with every later file
\* untouched.

C24_Sequential ==
    \A e \in Epochs :
        LET job == series[e]
        IN  /\ Cardinality({i \in FilesOf(job) : InProgress(job.f[i])}) <= 1
            /\ \A i, k \in FilesOf(job) :
                   (i < k /\ job.f[k].stage # "waiting")
                       => /\ job.f[i].stage = "over"
                          /\ ~job.f[i].failed
                          /\ job.f[i].calls = 1
            /\ \A i \in FilesOf(job) :
                   job.f[i].failed => /\ job.stage = "done"
                                      /\ job.result = "err"
                                      /\ job.calls = 1

\* the first of two matched files has failed in its copy: the invocation
\* has ended with the error and the second file keeps its content
C24_Witness ==
    \E e \in Epochs :
        /\ Len(series[e].f) = 2
        /\ series[e].f[1].failed
        /\ series[e].f[1].stage = "copy"
        /\ series[e].f[2].stage = "waiting"
        /\ series[e].result = "err"
        /\ files[series[e].matched[2]] # <<>>

----------------------------------------------------------------------------
\* C25: archiving never truncates a destination: from the moment the write
\* stream of a file is created, what the destination held before is a
\* prefix of what it holds, and a file archived without an error has added
\* its content after it.

C25_Appends ==
    \A e \in Epochs : \A i \in FilesOf(series[e]) :
        LET file == series[e].f[i]
        IN  /\ Streamed(file) => IsPrefix(file.before, stored[file.dest])
            /\ (Streamed(file) /\ InProgress(file))
                  => Len(stored[file.dest]) = Len(file.before) + file.copied

\* a file of two lines has been archived to a destination that held a line
\* of an earlier archive
C25_Witness ==
    \E e \in Epochs : \E i \in FilesOf(series[e]) :
        /\ series[e].f[i].stage = "over"
        /\ ~series[e].f[i].failed
        /\ series[e].f[i].before # <<>>
        /\ series[e].f[i].copied = 2
        /\ Len(stored[series[e].f[i].dest]) = Len(series[e].f[i].before) + 2

----------------------------------------------------------------------------
\* C26: for each file archived the source temp file is deleted only after
\* the destination stream has finished, and the completion of the file is
\* reported exactly once: never twice, and once when the file is over.

C26_ReportedOnce ==
    \A e \in Epochs : \A i \in FilesOf(series[e]) :
        LET file == series[e].f[i]
        IN  /\ (Streamed(file) /\ ~file.temp.exists)
                  => file.outp = "finished"
            /\ file.calls <= 1
            /\ file.stage = "over" => file.calls = 1

----------------------------------------------------------------------------
\* the debugLevel the instance was configured with: the one given last to
\* the constructor or to set(), the default of the constructor when none
\* was given
Configured ==
    IF debugLevelGiven = Absent THEN DefaultDebugLevel ELSE debugLevelGiven

----------------------------------------------------------------------------
\* C27: a debug(level, ...) call writes a row exactly when level is at most
\* the debugLevel the instance was configured with in the constructor args
\* or by set(); exactly then shouldLog(level) is true; and a call that does
\* not write changes nothing of the instance or of the files.

C27_DebugThreshold ==
    [][(row'.category = "debug" /\ last'.op \in {"print", "debug"})
          => /\ (last'.op = "print") <=> (row'.code <= Configured)
             /\ (last'.op = "print") <=> shouldLog(row'.code)
             /\ (last'.op = "debug")
                   => UNCHANGED <<useBuffer, bufferLines, flushInProgress,
                                  flushTimer, bufferMaxLines, args, lastPath,
                                  files, pending, nprints, lastRow,
                                  flushOnShutdown, approximateTime,
                                  lastEpoch, lastDateStr>>]_vars

----------------------------------------------------------------------------
\* C29: once approximateTime has been set to true, in the constructor args
\* or by set('approximateTime', true), every print without an explicit
\* timestamp takes its time from the approximate clock snapshot.

C29_ApproximateClock ==
    (/\ last.op = "print"
     /\ row.clock # "explicit"
     /\ approximateTime \/ args.approximateTime = "true")
        => row.clock = "approximate"

----------------------------------------------------------------------------
\* C30: whatever the times of the prints made so far, the date of the last
\* row is the formatted date of the row's own epoch second, the epoch
\* second being the whole seconds of the row's time; the cached date
\* string is the formatted date of the cached second and is taken only for
\* a row of that second.

C30_DateCache ==
    /\ row.written => /\ row.epoch = row.hires \div TicksPerSecond
                      /\ row.date = FormatDate(row.epoch)
    /\ (last.op = "print" /\ row.cached) => row.epoch = lastEpoch
    /\ lastEpoch # 0 => lastDateStr = FormatDate(lastEpoch)

\* the second of two prints, given an explicit timestamp half a second
\* before the time of the first, has taken the cached date string
C30_Witness ==
    /\ nprints = 2
    /\ row.written
    /\ row.cached
    /\ row.clock = "explicit"
    /\ row.hires % TicksPerSecond = 0
    /\ row.epoch = 1

----------------------------------------------------------------------------
\* the bracket-delimited fields a reader finds in what is left of a line:
\* a field ends where the next ][ begins
RECURSIVE SplitFields(_, _)
SplitFields(chars, field) ==
    IF chars = <<>> THEN <<field>>
    ELSE IF Len(chars) >= 2 /\ chars[1] = "]" /\ chars[2] = "["
    THEN <<field>> \o SplitFields(SubSeq(chars, 3, Len(chars)), <<>>)
    ELSE SplitFields(Tail(chars), Append(field, chars[1]))

\* the fields of a line: what lies between its first [ and its last ]
Fields(line) ==
    SplitFields(SubSeq(line, 2, Len(line) - 2), <<>>)

\* whether a string holds the two characters ][ in a row
HasDelimiter(chars) ==
    \E i \in 1..(Len(chars) - 1) : chars[i] = "]" /\ chars[i + 1] = "["

----------------------------------------------------------------------------
\* C28: with the default filter and serializer the line of a record holds
\* exactly one bracket-delimited field per column, in column order, each
\* the cleansed value of its column, and no cleansed value holds a carriage
\* return, a line feed or the sequence ][, whatever the values hold.

C28_Serialized ==
    composed # NoLine
        => /\ Len(composed.cols) = Len(composed.vals)
           /\ Fields(composed.line) = composed.cols
           /\ \A i \in 1..Len(composed.cols) :
                  /\ \A k \in 1..Len(composed.cols[i]) :
                         composed.cols[i][k] \notin {"\r", "\n"}
                  /\ ~HasDelimiter(composed.cols[i])

----------------------------------------------------------------------------
\* C31: in buffered mode every line is appended to the output path resolved
\* for its own record: whatever a flush or shutdown has written to a file
\* is a line whose print resolved that file's path.
C31_OwnPath ==
    \A p \in Paths : \A i \in 1..Len(files[p]) :
        files[p][i].by \in {"flush", "shutdown"}
            => resolved[files[p][i].line] = p

----------------------------------------------------------------------------
\* C32: a synchronous append that fails inside flushBuffer does not leave
\* the flush-in-progress marker set: the marker is set only while an
\* fs.appendFile of a flush is outstanding, so that the next timer or
\* threshold trigger gets past the guard of flushBuffer.
C32_MarkerReleased ==
    flushInProgress => Flushes(pending) # {}

----------------------------------------------------------------------------
\* C33: an instance has exactly one live flush interval while its buffering
\* is active, and none once shutdown has returned.
C33_OneTimer ==
    /\ useBuffer => timers = 1
    /\ shutDown => timers = 0

----------------------------------------------------------------------------
\* C34: enableBuffer() called while the buffer holds unflushed lines
\* discards none of them: each line buffered before the call is still
\* buffered after it, from where a flush or shutdown takes it to the file.
C34_KeepsBuffered ==
    [][last'.op = "enableBuffer"
           => \A k \in 1..Len(bufferLines) :
                  Occurrences(bufferLines', bufferLines[k]) >= 1]_vars

----------------------------------------------------------------------------
\* C35: when archive invocations overlap, each expands the date placeholders
\* of its destination path from its own epoch: every destination an
\* invocation has constructed from a dated template carries the epoch that
\* invocation was called with.
C35_OwnEpoch ==
    \A e \in Epochs : \A i \in FilesOf(series[e]) :
        (series[e].f[i].stage # "waiting" /\ IsGz(series[e].f[i].dest))
            => series[e].f[i].dest.dargs = e

----------------------------------------------------------------------------
\* C36, as stated: with bufferMaxLines fixed and every append succeeding, on
\* a buffering instance the buffer holds bufferMaxLines lines or more only
\* while a flush is in flight.
C36_FullOnlyInFlight ==
    (~failed /\ useBuffer /\ Flushes(pending) = {})
        => Len(bufferLines) < bufferMaxLines

\* C36, amended: with bufferMaxLines fixed and every append succeeding, when
\* a print call or a timer-triggered flushBuffer call returns on a buffering
\* instance, either a flush is in flight or the buffer holds fewer than
\* bufferMaxLines lines.
C36_BelowMaxAtReturn ==
    (/\ ~failed
     /\ useBuffer
     /\ last.op \in {"print", "tick"}
     /\ Flushes(pending) = {})
        => Len(bufferLines) < bufferMaxLines

\* a print has returned with the buffer full while a flush is in flight
C36_Witness ==
    /\ ~failed
    /\ useBuffer
    /\ last.op = "print"
    /\ Flushes(pending) # {}
    /\ Len(bufferLines) >= bufferMaxLines

====
